---- MODULE Spec2Model ----
(***************************************************************************)
(* A model of the layout core of obsidian-ai-canvas-architect:             *)
(*   - CanvasGraph (core/domain/entities/canvas-graph.ts), the container   *)
(*     of nodes and edges, with its serialisation and parser;              *)
(*   - DBSCANAlgorithm (core/domain/value-objects/coordinate.ts), the      *)
(*     density clustering engine, stepped one loop iteration at a time;    *)
(*   - MDSAlgorithm (same file), the projection of vectors to the canvas;  *)
(*   - CanvasBuilderService (core/application/services/                    *)
(*     canvas-builder.service.ts), which assembles a graph from notes.     *)
(* A JavaScript Map is modelled as the sequence of its values in insertion *)
(* order (set on an existing key keeps the key's place).                   *)
(***************************************************************************)
EXTENDS Integers, Sequences, FiniteSets, TLC

\* ---------------------------------------------------------------- bounds
MaxNodes == 2       \* nodes a graph holds in the model
MaxEdges == 2       \* edges a graph holds in the model
MaxNodeIds == 2     \* cap of nodeIdCounter
MaxEdgeIds == 2     \* cap of edgeIdCounter

\* ------------------------------------------------------- program constants
DefaultNodeWidth == 250
DefaultNodeHeight == 150

VARIABLES
  graph,          \* the CanvasGraph under test: [nodes, edges]
  nodeIdCounter,  \* module-level counter of canvas-node.ts
  edgeIdCounter,  \* module-level counter of canvas-edge.ts
  call            \* the last operation: its name and, where a claim reads
                  \* them, its argument, outcome and the graph before it

gvars == <<graph, nodeIdCounter, edgeIdCounter, call>>

\* One DBSCANAlgorithm and the run(points) in progress on it
VARIABLES
  points,         \* run's argument: a list of [id, x, y]
  eps, minPts,    \* this.options
  labels,         \* run's local array: Undefined, -1 (noise) or a cluster id
  runI,           \* run's loop variable i, counted from 1
  clusterId,      \* run's local counter
  queue,          \* expandCluster's queue of point indices
  visited,        \* expandCluster's visited set
  dpc,            \* "run", "loop", "expand" or "done"
  result,         \* what run returned
  prevResult      \* what the run before this one returned on the same input

dvars == <<points, eps, minPts, labels, runI, clusterId, queue, visited, dpc,
           result, prevResult>>

\* One CanvasBuilderService with its MDSAlgorithm, and the calls made on them
VARIABLES
  mds,            \* a call of MDSAlgorithm.run: [input, options, output]
  edgeRun,        \* a call of createEdges: [notes, threshold, ...]
  overlapRun,     \* a call of resolveOverlaps in progress
  build           \* a call of buildCanvas: [notes, options, ...]

bvars == <<mds, edgeRun, overlapRun, build>>

vars == <<gvars, dvars, bvars>>

\* ------------------------------------------------------------ identifiers
\* a generateNodeId without the counter
generateNodeIdOfPrefix(prefix, counter) == <<prefix, 1>>

\* generateNodeId(prefix) returns `${prefix}-${Date.now()}-${++nodeIdCounter}`:
\* the counter makes every generated id of a process distinct from every
\* other one; ids given to a constructor directly are the "ext" ids.
generateNodeId(prefix, counter) == <<prefix, counter + 1>>
generateEdgeId(counter) == <<"edge", counter + 1>>

ExtNodeIds == {<<"ext", 1>>, <<"ext", 2>>}
NoEdgeId == <<"edge", 0>>      \* an id no edge carries
NodeTypes == {"file", "text", "group"}

\* Dimension.defaultNode()
defaultNode == [width |-> DefaultNodeWidth, height |-> DefaultNodeHeight]

\* new FileNode / TextNode / GroupNode (id, position, dimension, ...)
CanvasNode(id, type, dim) ==
  [id |-> id, type |-> type, width |-> dim.width, height |-> dim.height]

\* new CanvasEdge(id, fromNode, toNode, ...)
CanvasEdge(id, from, to) == [id |-> id, fromNode |-> from, toNode |-> to]

\* involves that looks at the source end only
involvesFromOnly(edge, nodeId) == edge.fromNode = nodeId

\* CanvasEdge.involves
involves(edge, nodeId) == edge.fromNode = nodeId \/ edge.toNode = nodeId

\* ------------------------------------------------------------ Map helpers
MapHas(m, id) == \E k \in 1..Len(m) : m[k].id = id
MapSet(m, v) ==
  IF MapHas(m, v.id)
  THEN [k \in 1..Len(m) |-> IF m[k].id = v.id THEN v ELSE m[k]]
  ELSE Append(m, v)
MapDelete(m, id) == SelectSeq(m, LAMBDA v : v.id # id)
MapKeys(m) == {m[k].id : k \in 1..Len(m)}
Range(s) == {s[k] : k \in 1..Len(s)}

\* a graph that is created holding a node
GraphOfOneNode == [nodes |-> <<[id |-> <<"ext", 1>>, type |-> "text"]>>, edges |-> <<>>]

\* new CanvasGraph()
EmptyGraph == [nodes |-> <<>>, edges |-> <<>>]

\* -------------------------------------------------- CanvasGraph operations
\* an addNode that adds nothing
addNodeNone(g, node) == g

\* addNode: this.nodes.set(node.id, node)
addNode(g, node) == [g EXCEPT !.nodes = MapSet(g.nodes, node)]

RECURSIVE addNodes(_, _)
addNodes(g, ns) ==
  IF ns = <<>> THEN g ELSE addNodes(addNode(g, Head(ns)), Tail(ns))

\* removeNode keeps the edges that do not touch the node
removeNodeKeepsEdges(g, nodeId) ==
  IF ~MapHas(g.nodes, nodeId)
  THEN [g |-> g, ret |-> FALSE]
  ELSE [g |-> [g EXCEPT !.nodes = MapDelete(g.nodes, nodeId)], ret |-> TRUE]

removeNode(g, nodeId) ==
  IF ~MapHas(g.nodes, nodeId)
  THEN [g |-> g, ret |-> FALSE]
  ELSE [g |-> [nodes |-> MapDelete(g.nodes, nodeId),
               edges |-> SelectSeq(g.edges, LAMBDA e : ~involves(e, nodeId))],
        ret |-> TRUE]

\* addEdge without the endpoint validation
addEdgeUnchecked(g, edge) ==
  [g |-> [g EXCEPT !.edges = MapSet(g.edges, edge)], threw |-> FALSE]

addEdge(g, edge) ==
  IF ~MapHas(g.nodes, edge.fromNode) \/ ~MapHas(g.nodes, edge.toNode)
  THEN [g |-> g, threw |-> TRUE]
  ELSE [g |-> [g EXCEPT !.edges = MapSet(g.edges, edge)], threw |-> FALSE]

\* addEdges stops at the first edge addEdge rejects; the earlier ones stay
RECURSIVE addEdges(_, _)
addEdges(g, es) ==
  IF es = <<>> THEN [g |-> g, threw |-> FALSE]
  ELSE LET r == addEdge(g, Head(es))
       IN IF r.threw THEN r ELSE addEdges(r.g, Tail(es))

removeEdge(g, edgeId) ==
  [g |-> [g EXCEPT !.edges = MapDelete(g.edges, edgeId)],
   ret |-> MapHas(g.edges, edgeId)]

clear(g) == EmptyGraph

getNodesByType(g, type) == SelectSeq(g.nodes, LAMBDA n : n.type = type)
getGroupNodes(g) == getNodesByType(g, "group")
nodeCount(g) == Len(g.nodes)
edgeCount(g) == Len(g.edges)

\* ------------------------------------------------------------ serialising
\* FileNode/TextNode/GroupNode.toCanvasFormat (x, y, file, text, label and
\* color carry no claim and are left out of the node record)
nodeToCanvasFormat(n) ==
  [id |-> n.id, type |-> n.type, width |-> n.width, height |-> n.height]

\* CanvasEdge.toCanvasFormat
edgeToCanvasFormat(e) ==
  [id |-> e.id, fromNode |-> e.fromNode, toNode |-> e.toNode]

MapSeq(f(_), s) == [k \in 1..Len(s) |-> f(s[k])]

\* toCanvasFormat that lists the nodes in insertion order
toCanvasFormatUnordered(g) ==
  [nodes |-> MapSeq(nodeToCanvasFormat, g.nodes),
   edges |-> MapSeq(edgeToCanvasFormat, g.edges)]

toCanvasFormat(g) ==
  LET groups == getGroupNodes(g)
      otherNodes == SelectSeq(g.nodes, LAMBDA n : n.type # "group")
  IN [nodes |-> MapSeq(nodeToCanvasFormat, groups \o otherNodes),
      edges |-> MapSeq(edgeToCanvasFormat, g.edges)]

\* ---------------------------------------------------------------- parsing
Null == [type |-> "null"]
IsNull(v) == v = Null

\* data.field ?? default
Get(data, field, default) ==
  IF field \in DOMAIN data THEN data[field] ELSE default

\* The body of parseNode's try block. Dimension's constructor throws on a
\* negative width or height, before any id is generated. `now` is Date.now().
parseNodeTry(data, counter, now) ==
  LET type == Get(data, "type", "undefined")
      width == Get(data, "width", DefaultNodeWidth)
      height == Get(data, "height", DefaultNodeHeight)
      dim == [width |-> width, height |-> height]
  IN IF width < 0 \/ height < 0
     THEN [node |-> Null, threw |-> TRUE, counter |-> counter]
     ELSE IF type \in {"file", "text"}
     THEN [node |-> CanvasNode(generateNodeId(type, counter), type, dim),
           threw |-> FALSE, counter |-> counter + 1]
     ELSE IF type = "group"
     THEN [node |-> CanvasNode(Get(data, "id", <<"group-now", now>>), type, dim),
           threw |-> FALSE, counter |-> counter]
     ELSE [node |-> Null, threw |-> FALSE, counter |-> counter]

\* parseNode without its catch clause
parseNodeNoCatch(data, counter, now) == parseNodeTry(data, counter, now)

\* parseNode: the catch clause turns an exception into null
parseNode(data, counter, now) ==
  LET r == parseNodeTry(data, counter, now)
  IN IF r.threw THEN [r EXCEPT !.threw = FALSE] ELSE r

\* parseEdge: null when an endpoint is missing, else CanvasEdge.create
parseEdge(data, counter) ==
  IF "fromNode" \notin DOMAIN data \/ "toNode" \notin DOMAIN data
  THEN [edge |-> Null, counter |-> counter]
  ELSE [edge |-> CanvasEdge(generateEdgeId(counter), data.fromNode, data.toNode),
        counter |-> counter + 1]

\* The node loop of fromJSON; clock[k] is Date.now() at the k-th record.
\* st = [g, nc, threw]
RECURSIVE parseNodes(_, _, _, _)
parseNodes(st, records, clock, k) ==
  IF k > Len(records) \/ st.threw THEN st
  ELSE LET r == parseNode(records[k], st.nc, clock[k])
       IN parseNodes([g |-> IF r.threw \/ IsNull(r.node) THEN st.g
                             ELSE addNode(st.g, r.node),
                      nc |-> r.counter,
                      threw |-> r.threw],
                     records, clock, k + 1)

\* The edge loop of fromJSON: addEdge's exception is caught and ignored.
\* st = [g, ec]
RECURSIVE parseEdges(_, _, _)
parseEdges(st, records, k) ==
  IF k > Len(records) THEN st
  ELSE LET r == parseEdge(records[k], st.ec)
       IN parseEdges([g |-> IF IsNull(r.edge) THEN st.g
                             ELSE addEdge(st.g, r.edge).g,
                      ec |-> r.counter],
                     records, k + 1)

\* CanvasGraph.fromJSON(data): a missing nodes or edges array is skipped
fromJSON(data, nc, ec, clock) ==
  LET ns == parseNodes([g |-> EmptyGraph, nc |-> nc, threw |-> FALSE],
                       Get(data, "nodes", <<>>), clock, 1)
      es == parseEdges([g |-> ns.g, ec |-> ec], Get(data, "edges", <<>>), 1)
  IN IF ns.threw
     THEN [g |-> ns.g, nc |-> ns.nc, ec |-> ec, threw |-> TRUE]
     ELSE [g |-> es.g, nc |-> ns.nc, ec |-> es.ec, threw |-> FALSE]

\* ------------------------------------------------------------------ inputs
\* A node handed to addNode is either made by FileNode/GroupNode.create (a
\* generated id) or by a constructor with an id of the caller's choosing;
\* the second kind lets addNode meet an id the graph already holds.
NodeInputs ==
  {[kind |-> "create", type |-> "file"],
   [kind |-> "create", type |-> "group"],
   [kind |-> "new", type |-> "text", id |-> <<"ext", 1>>],
   [kind |-> "new", type |-> "group", id |-> <<"ext", 1>>]}

\* The nodes a list of inputs builds, with the counter after building them.
RECURSIVE makeNodes(_, _)
makeNodes(inputs, counter) ==
  IF inputs = <<>> THEN [nodes |-> <<>>, counter |-> counter]
  ELSE LET in == Head(inputs)
           node == IF in.kind = "create"
                   THEN CanvasNode(generateNodeId(in.type, counter), in.type, defaultNode)
                   ELSE CanvasNode(in.id, in.type, defaultNode)
           rest == makeNodes(Tail(inputs),
                             IF in.kind = "create" THEN counter + 1 ELSE counter)
       IN [nodes |-> <<node>> \o rest.nodes, counter |-> rest.counter]

\* An edge handed to addEdge is made by CanvasEdge.create and its siblings
\* (a generated id), as every edge of the repository is; its endpoints are
\* any ids, in the graph or not.
EndpointIds(g) == MapKeys(g.nodes) \cup {<<"ext", 1>>}
EdgeInputs(g) ==
  [kind : {"create"}, fromNode : EndpointIds(g), toNode : EndpointIds(g)]
EdgeListInputs(g) == [1..2 -> EdgeInputs(g)]

RECURSIVE makeEdges(_, _)
makeEdges(inputs, counter) ==
  IF inputs = <<>> THEN [edges |-> <<>>, counter |-> counter]
  ELSE LET in == Head(inputs)
           edge == CanvasEdge(generateEdgeId(counter), in.fromNode, in.toNode)
           rest == makeEdges(Tail(inputs), counter + 1)
       IN [edges |-> <<edge>> \o rest.edges, counter |-> rest.counter]

SeqsUpTo(S, n) == UNION {[1..k -> S] : k \in 0..n}

\* The canvas files fromJSON is given as the graph's construction: group
\* records (their ids are kept), a file record, an unknown type, and edges
\* between ids that are or are not among the parsed nodes.
FileRawNodes ==
  {[type |-> "group", id |-> <<"ext", 1>>],
   [type |-> "group", id |-> <<"ext", 2>>],
   [type |-> "file", id |-> <<"ext", 2>>],
   [type |-> "link", id |-> <<"ext", 1>>]}
FileRawEdges ==
  {[fromNode |-> <<"ext", 1>>, toNode |-> <<"ext", 2>>],
   [fromNode |-> <<"ext", 1>>, toNode |-> <<"ext", 1>>],
   [fromNode |-> <<"ext", 1>>]}
FileRawData ==
  {[nodes |-> ns, edges |-> es] :
     ns \in SeqsUpTo(FileRawNodes, 2), es \in SeqsUpTo(FileRawEdges, 1)}

\* ------------------------------------------------------------------ actions
NoResult == [clusters |-> <<>>, noise |-> <<>>, assignments |-> <<>>]
\* no DBSCAN run is going on
\* no call is made on a builder
NotCalled == [op |-> "none"]
BuilderIdle ==
  /\ mds = NotCalled /\ edgeRun = NotCalled
  /\ overlapRun = NotCalled /\ build = NotCalled

DbscanIdle ==
  /\ points = <<>> /\ eps = 0 /\ minPts = 0
  /\ labels = <<>> /\ runI = 0 /\ clusterId = 0
  /\ queue = <<>> /\ visited = {} /\ dpc = "idle"
  /\ result = NoResult /\ prevResult = NoResult

InitGraph ==
  /\ DbscanIdle
  /\ BuilderIdle
  /\ graph = EmptyGraph
  /\ nodeIdCounter = 0
  /\ edgeIdCounter = 0
  /\ call = [op |-> "new"]

Fits(g) == Len(g.nodes) <= MaxNodes /\ Len(g.edges) <= MaxEdges

AddNode ==
  \E in \in NodeInputs :
    LET m == makeNodes(<<in>>, nodeIdCounter)
        g == addNode(graph, m.nodes[1])
    IN /\ m.counter <= MaxNodeIds
       /\ Fits(g)
       /\ graph' = g
       /\ nodeIdCounter' = m.counter
       /\ call' = [op |-> "addNode"]
       /\ UNCHANGED edgeIdCounter

AddNodes ==
  \E ins \in [1..2 -> NodeInputs] :
    LET m == makeNodes(ins, nodeIdCounter)
        g == addNodes(graph, m.nodes)
    IN /\ m.counter <= MaxNodeIds
       /\ Fits(g)
       /\ graph' = g
       /\ nodeIdCounter' = m.counter
       /\ call' = [op |-> "addNodes"]
       /\ UNCHANGED edgeIdCounter

AddEdge ==
  \E in \in EdgeInputs(graph) :
    LET m == makeEdges(<<in>>, edgeIdCounter)
        r == addEdge(graph, m.edges[1])
    IN /\ m.counter <= MaxEdgeIds
       /\ Fits(r.g)
       /\ graph' = r.g
       /\ edgeIdCounter' = m.counter
       /\ call' = [op |-> "addEdge", arg |-> m.edges[1], threw |-> r.threw,
                   before |-> graph]
       /\ UNCHANGED nodeIdCounter

AddEdges ==
  \E ins \in EdgeListInputs(graph) :
    LET m == makeEdges(ins, edgeIdCounter)
        r == addEdges(graph, m.edges)
    IN /\ m.counter <= MaxEdgeIds
       /\ Fits(r.g)
       /\ graph' = r.g
       /\ edgeIdCounter' = m.counter
       /\ call' = [op |-> "addEdges", threw |-> r.threw]
       /\ UNCHANGED nodeIdCounter

RemoveNode ==
  \E id \in EndpointIds(graph) :
    LET r == removeNode(graph, id)
    IN /\ graph' = r.g
       /\ call' = [op |-> "removeNode", arg |-> id, ret |-> r.ret, before |-> graph]
       /\ UNCHANGED <<nodeIdCounter, edgeIdCounter>>

RemoveEdge ==
  \E id \in MapKeys(graph.edges) \cup {NoEdgeId} :
    LET r == removeEdge(graph, id)
    IN /\ graph' = r.g
       /\ call' = [op |-> "removeEdge", ret |-> r.ret]
       /\ UNCHANGED <<nodeIdCounter, edgeIdCounter>>

Clear ==
  /\ graph' = clear(graph)
  /\ call' = [op |-> "clear"]
  /\ UNCHANGED <<nodeIdCounter, edgeIdCounter>>

\* graph = CanvasGraph.fromJSON(data): fromJSON is static and builds its
\* graph from a new, empty one, so the model takes it where the graph under
\* test is empty (every counter value is reached there, clear keeps them).
NoClock == <<0, 0>>
FromJSON ==
  /\ graph = EmptyGraph
  /\ \E data \in FileRawData :
       LET r == fromJSON(data, nodeIdCounter, edgeIdCounter, NoClock)
       IN /\ r.nc <= MaxNodeIds /\ r.ec <= MaxEdgeIds
          /\ Fits(r.g)
          /\ graph' = r.g
          /\ nodeIdCounter' = r.nc
          /\ edgeIdCounter' = r.ec
          /\ call' = [op |-> "fromJSON", threw |-> r.threw]

\* graph = CanvasGraph.fromJSON(graph.toCanvasFormat())
RoundTrip ==
  LET data == toCanvasFormat(graph)
      r == fromJSON(data, nodeIdCounter, edgeIdCounter, [k \in 1..Len(data.nodes) |-> 0])
  IN /\ r.nc <= MaxNodeIds /\ r.ec <= MaxEdgeIds
     /\ graph' = r.g
     /\ nodeIdCounter' = r.nc
     /\ edgeIdCounter' = r.ec
     /\ call' = [op |-> "roundTrip", threw |-> r.threw, before |-> graph]

NextGraph ==
  \/ AddNode /\ UNCHANGED <<dvars, bvars>>
  \/ AddNodes /\ UNCHANGED <<dvars, bvars>>
  \/ AddEdge /\ UNCHANGED <<dvars, bvars>>
  \/ AddEdges /\ UNCHANGED <<dvars, bvars>>
  \/ RemoveNode /\ UNCHANGED <<dvars, bvars>>
  \/ RemoveEdge /\ UNCHANGED <<dvars, bvars>>
  \/ Clear /\ UNCHANGED <<dvars, bvars>>
  \/ FromJSON /\ UNCHANGED <<dvars, bvars>>
  \/ RoundTrip /\ UNCHANGED <<dvars, bvars>>

SpecGraph == InitGraph /\ [][NextGraph]_vars

\* ------------------------------------------------ the parser on raw records
\* SpecParse applies fromJSON to the records of a canvas file: any type, with
\* or without id, width and height, a negative width among them.
MaxRecords == 2     \* node records of a canvas file in the model

RawNodes ==
  UNION {
    {[type |-> t], [type |-> t, width |-> 100, height |-> 50],
     [type |-> t, height |-> 50], [type |-> t, width |-> 0 - 1, height |-> 50]}
    : t \in {"file", "link"}} \cup
  {[type |-> "text"], [type |-> "text", width |-> 100], [id |-> <<"ext", 1>>],
   [type |-> "group"],
   [type |-> "group", id |-> <<"ext", 1>>],
   [type |-> "group", id |-> <<"ext", 1>>, width |-> 100, height |-> 50],
   [type |-> "group", id |-> <<"ext", 2>>, width |-> 100],
   [type |-> "group", id |-> <<"ext", 2>>, width |-> 100, height |-> 0 - 1]}
RawEdges ==
  {[fromNode |-> <<"ext", 1>>, toNode |-> <<"ext", 2>>],
   [fromNode |-> <<"ext", 1>>, toNode |-> <<"ext", 1>>],
   [fromNode |-> <<"ext", 1>>]}
RawData ==
  {[nodes |-> ns, edges |-> es] :
     ns \in SeqsUpTo(RawNodes, MaxRecords), es \in SeqsUpTo(RawEdges, 1)} \cup
  {[edges |-> es] : es \in SeqsUpTo(RawEdges, 1)}
\* Date.now() at each node record: it never goes back
Clocks ==
  {c \in [1..MaxRecords -> 0..1] :
     c[1] = 0 /\ \A k \in 1..(MaxRecords - 1) : c[k] <= c[k + 1]}

InitParse ==
  /\ DbscanIdle
  /\ BuilderIdle
  /\ graph = EmptyGraph
  /\ nodeIdCounter \in 0..1
  /\ edgeIdCounter = 0
  /\ \E data \in RawData, clock \in Clocks :
       call = [op |-> "file", arg |-> data, clock |-> clock]

Parse ==
  /\ call.op = "file"
  /\ LET r == fromJSON(call.arg, nodeIdCounter, edgeIdCounter, call.clock)
     IN /\ graph' = r.g
        /\ nodeIdCounter' = r.nc
        /\ edgeIdCounter' = r.ec
        /\ call' = [op |-> "fromJSON", arg |-> call.arg, clock |-> call.clock,
                    threw |-> r.threw, nc |-> nodeIdCounter]

NextParse == Parse /\ UNCHANGED <<dvars, bvars>>

SpecParse == InitParse /\ [][NextParse]_vars

\* ================================================================== DBSCAN
MaxPts == 4         \* points of a run in the model

\* labels[i] === undefined: the array slot was never written
Undefined == 0 - 2
Noise == 0 - 1

\* this.distance(a, b) < eps: a point exactly eps away is left out
distanceWithinStrict(a, b, e) ==
  IF "nan" \in DOMAIN a \/ "nan" \in DOMAIN b THEN FALSE
  ELSE LET dx == a.x - b.x
           dy == a.y - b.y
       IN e > 0 /\ dx * dx + dy * dy < e * e

\* this.distance(a, b) <= eps, on integer coordinates: Math.sqrt is monotone
\* and exact on squares, so sqrt(dx*dx + dy*dy) <= eps iff eps >= 0 and
\* dx*dx + dy*dy <= eps*eps. A point whose coordinate is NaN is a record
\* [id, nan]; its distance to any point is NaN and NaN <= eps is false.
distanceWithin(a, b, e) ==
  IF "nan" \in DOMAIN a \/ "nan" \in DOMAIN b THEN FALSE
  ELSE LET dx == a.x - b.x
           dy == a.y - b.y
       IN e >= 0 /\ dx * dx + dy * dy <= e * e

Indices(pts) == [k \in 1..Len(pts) |-> k]

\* regionQuery that leaves the point itself out of its neighbourhood
regionQueryWithoutSelf(pts, pointIndex, e) ==
  SelectSeq(Indices(pts), LAMBDA k :
    k # pointIndex /\ distanceWithin(pts[pointIndex], pts[k], e))

\* regionQuery: the indices, ascending, of the points within eps of the point
regionQuery(pts, pointIndex, e) ==
  SelectSeq(Indices(pts), LAMBDA k : distanceWithin(pts[pointIndex], pts[k], e))

\* expandCluster's first if without its assignment
relabelNoiseNever(lbls, currentIndex, cid) == lbls

\* expandCluster: if (labels[currentIndex] === -1) labels[currentIndex] = clusterId
relabelNoise(lbls, currentIndex, cid) ==
  IF lbls[currentIndex] = Noise THEN [lbls EXCEPT ![currentIndex] = cid] ELSE lbls

\* expandCluster without `for (const neighbor of currentNeighbors)`: a core
\* point that is pulled in adds nothing to the queue
expandStepNoPropagation(pts, e, mp, cid, st) ==
  LET currentIndex == Head(st.queue)
      rest == Tail(st.queue)
  IN IF currentIndex \in st.visited
     THEN [st EXCEPT !.queue = rest]
     ELSE LET vis == st.visited \cup {currentIndex}
              l1 == relabelNoise(st.labels, currentIndex, cid)
          IN IF l1[currentIndex] = Undefined
             THEN [labels |-> [l1 EXCEPT ![currentIndex] = cid],
                   queue |-> rest, visited |-> vis]
             ELSE [labels |-> l1, queue |-> rest, visited |-> vis]

\* expandCluster without `if (currentNeighbors.length >= this.options.minPts)`:
\* every point that is pulled in adds its neighbours to the queue
expandStepAlwaysPropagates(pts, e, mp, cid, st) ==
  LET currentIndex == Head(st.queue)
      rest == Tail(st.queue)
  IN IF currentIndex \in st.visited
     THEN [st EXCEPT !.queue = rest]
     ELSE LET vis == st.visited \cup {currentIndex}
              l1 == relabelNoise(st.labels, currentIndex, cid)
          IN IF l1[currentIndex] = Undefined
             THEN [labels |-> [l1 EXCEPT ![currentIndex] = cid],
                   queue |-> rest \o SelectSeq(regionQuery(pts, currentIndex, e),
                                               LAMBDA n : n \notin vis),
                   visited |-> vis]
             ELSE [labels |-> l1, queue |-> rest, visited |-> vis]

\* expandCluster with `if (labels[currentIndex] !== undefined)` for its first
\* if: a point that has a cluster already is given the new one
expandStepRelabels(pts, e, mp, cid, st) ==
  LET currentIndex == Head(st.queue)
      rest == Tail(st.queue)
  IN IF currentIndex \in st.visited
     THEN [st EXCEPT !.queue = rest]
     ELSE LET vis == st.visited \cup {currentIndex}
          IN IF st.labels[currentIndex] = Undefined
             THEN LET currentNeighbors == regionQuery(pts, currentIndex, e)
                      more == IF Len(currentNeighbors) >= mp
                              THEN SelectSeq(currentNeighbors, LAMBDA n : n \notin vis)
                              ELSE <<>>
                  IN [labels |-> [st.labels EXCEPT ![currentIndex] = cid],
                      queue |-> rest \o more,
                      visited |-> vis]
             ELSE [labels |-> [st.labels EXCEPT ![currentIndex] = cid],
                   queue |-> rest, visited |-> vis]

\* One pass of expandCluster's while loop, on [labels, queue, visited]
expandStep(pts, e, mp, cid, st) ==
  LET currentIndex == Head(st.queue)
      rest == Tail(st.queue)
  IN IF currentIndex \in st.visited
     THEN [st EXCEPT !.queue = rest]
     ELSE LET vis == st.visited \cup {currentIndex}
              l1 == relabelNoise(st.labels, currentIndex, cid)
          IN IF l1[currentIndex] = Undefined
             THEN LET currentNeighbors == regionQuery(pts, currentIndex, e)
                      more == IF Len(currentNeighbors) >= mp
                              THEN SelectSeq(currentNeighbors, LAMBDA n : n \notin vis)
                              ELSE <<>>
                  IN [labels |-> [l1 EXCEPT ![currentIndex] = cid],
                      queue |-> rest \o more,
                      visited |-> vis]
             ELSE [labels |-> l1, queue |-> rest, visited |-> vis]

\* labels[i] || -1
labelOrNoiseFalsy(label) == IF label = Undefined \/ label = 0 THEN Noise ELSE label

\* labels[i] ?? -1
labelOrNoise(label) == IF label = Undefined THEN Noise ELSE label

\* Math.round(sum / n), n > 0: the nearest integer, a half rounded up
roundDiv(sum, n) == (2 * sum + n) \div (2 * n)

RECURSIVE SumOver(_, _)
SumOver(f(_), s) == IF s = <<>> THEN 0 ELSE f(Head(s)) + SumOver(f, Tail(s))

\* calculateCentroid, of the points with the given indices
calculateCentroid(pts, members) ==
  IF members = <<>> THEN [x |-> 0, y |-> 0]
  ELSE LET px(k) == pts[k].x
           py(k) == pts[k].y
       IN [x |-> roundDiv(SumOver(px, members), Len(members)),
           y |-> roundDiv(SumOver(py, members), Len(members))]

\* clusters.sort((a, b) => a.clusterId - b.clusterId), a stable sort
RECURSIVE insertCluster(_, _)
insertCluster(sorted, c) ==
  IF sorted = <<>> THEN <<c>>
  ELSE IF c.clusterId < Head(sorted).clusterId THEN <<c>> \o sorted
  ELSE <<Head(sorted)>> \o insertCluster(Tail(sorted), c)
RECURSIVE sortClusters(_)
sortClusters(cs) ==
  IF cs = <<>> THEN <<>>
  ELSE insertCluster(sortClusters(SubSeq(cs, 1, Len(cs) - 1)), cs[Len(cs)])

\* The keys of clusterPoints in insertion order: each label other than -1,
\* at its first occurrence in the label array
RECURSIVE firstOccurrences(_, _)
firstOccurrences(ls, seen) ==
  IF ls = <<>> THEN <<>>
  ELSE IF Head(ls) = Noise \/ Head(ls) \in seen
       THEN firstOccurrences(Tail(ls), seen)
       ELSE <<Head(ls)>> \o firstOccurrences(Tail(ls), seen \cup {Head(ls)})

\* The result run builds from the labels. A point of the result is the index
\* of the input point it refers to; assignments is keyed by point id, a later
\* point of the same id overwriting an earlier one.
buildResult(pts, lbls) ==
  LET final == [k \in 1..Len(pts) |-> labelOrNoise(lbls[k])]
      ids == {pts[k].id : k \in 1..Len(pts)}
      last(id) == CHOOSE k \in 1..Len(pts) :
                    pts[k].id = id /\ \A j \in 1..Len(pts) : pts[j].id = id => j <= k
      members(cid) == SelectSeq(Indices(pts), LAMBDA k : final[k] = cid)
      keys == firstOccurrences(final, {})
      clusters == [j \in 1..Len(keys) |->
                     [clusterId |-> keys[j],
                      points |-> members(keys[j]),
                      centroid |-> calculateCentroid(pts, members(keys[j]))]]
  IN [clusters |-> sortClusters(clusters),
      noise |-> members(Noise),
      assignments |-> [id \in ids |-> final[last(id)]]]

\* let clusterId = 0, as a field that outlives the call would be
firstClusterIdKept(previous) == previous

\* let clusterId = 0: run's counter is a local, whatever an earlier run left
firstClusterId(previous) == 0

\* ------------------------------------------------------------------ inputs
\* Point coordinates are drawn from a 3 x 2 grid, so that two points are
\* 0, 1, sqrt 2, 2 or sqrt 5 apart; ids are distinct (buildCanvas passes node
\* ids) except in the lists of DuplicateIdLists.
Coords == (0..2) \X (0..1)
EpsValues == 0..2
MinPtsValues == 0..3
PointLists ==
  UNION {{[k \in 1..n |-> [id |-> k, x |-> c[k][1], y |-> c[k][2]]] :
            c \in [1..n -> Coords]} : n \in 0..MaxPts}
DuplicateIdLists ==
  {<<[id |-> 1, x |-> 0, y |-> 0], [id |-> 1, x |-> c[1], y |-> c[2]]>> : c \in Coords}

\* no graph is under test
GraphIdle ==
  /\ graph = EmptyGraph /\ nodeIdCounter = 0 /\ edgeIdCounter = 0
  /\ call = [op |-> "new"]

NotRun == [none |-> TRUE]

InitDbscan ==
  /\ GraphIdle
  /\ BuilderIdle
  /\ points \in PointLists \cup DuplicateIdLists
  /\ eps \in EpsValues
  /\ minPts \in MinPtsValues
  /\ labels = <<>> /\ runI = 0 /\ clusterId = 0
  /\ queue = <<>> /\ visited = {} /\ dpc = "run"
  /\ result = NoResult /\ prevResult = NotRun

\* ------------------------------------------------------------------ actions
\* run(points) with no points returns the empty result at once
ReturnEmpty ==
  /\ dpc = "run"
  /\ Len(points) = 0
  /\ result' = [clusters |-> <<>>, noise |-> <<>>, assignments |-> <<>>]
  /\ dpc' = "done"
  /\ UNCHANGED <<points, eps, minPts, labels, runI, clusterId, queue, visited,
                 prevResult>>

\* run(points): the label array and the cluster counter are created
Begin ==
  /\ dpc = "run"
  /\ Len(points) # 0
  /\ labels' = [k \in 1..Len(points) |-> Undefined]
  /\ clusterId' = firstClusterId(clusterId)
  /\ runI' = 1
  /\ dpc' = "loop"
  /\ UNCHANGED <<points, eps, minPts, queue, visited, result, prevResult>>

\* for loop: the point is labelled already
LoopSkip ==
  /\ dpc = "loop"
  /\ runI <= Len(points)
  /\ labels[runI] # Undefined
  /\ runI' = runI + 1
  /\ UNCHANGED <<points, eps, minPts, labels, clusterId, queue, visited, dpc,
                 result, prevResult>>

\* for loop: too few neighbours, the point is marked noise
LoopNoise ==
  /\ dpc = "loop"
  /\ runI <= Len(points)
  /\ labels[runI] = Undefined
  /\ Len(regionQuery(points, runI, eps)) < minPts
  /\ labels' = [labels EXCEPT ![runI] = Noise]
  /\ runI' = runI + 1
  /\ UNCHANGED <<points, eps, minPts, clusterId, queue, visited, dpc, result,
                 prevResult>>

\* for loop: the point starts a cluster; expandCluster is entered
LoopStartCluster ==
  /\ dpc = "loop"
  /\ runI <= Len(points)
  /\ labels[runI] = Undefined
  /\ Len(regionQuery(points, runI, eps)) >= minPts
  /\ labels' = [labels EXCEPT ![runI] = clusterId]
  /\ queue' = regionQuery(points, runI, eps)
  /\ visited' = {runI}
  /\ dpc' = "expand"
  /\ UNCHANGED <<points, eps, minPts, runI, clusterId, result, prevResult>>

\* expandCluster: one pass of the while loop
ExpandStep ==
  /\ dpc = "expand"
  /\ queue # <<>>
  /\ LET st == expandStep(points, eps, minPts, clusterId,
                          [labels |-> labels, queue |-> queue, visited |-> visited])
     IN /\ labels' = st.labels
        /\ queue' = st.queue
        /\ visited' = st.visited
  /\ UNCHANGED <<points, eps, minPts, runI, clusterId, dpc, result, prevResult>>

\* expandCluster returns; clusterId++ and the for loop goes on
ExpandReturn ==
  /\ dpc = "expand"
  /\ queue = <<>>
  /\ clusterId' = clusterId + 1
  /\ runI' = runI + 1
  /\ dpc' = "loop"
  /\ UNCHANGED <<points, eps, minPts, labels, queue, visited, result, prevResult>>

\* the for loop is over: the result is built and returned
Return ==
  /\ dpc = "loop"
  /\ runI > Len(points)
  /\ result' = buildResult(points, labels)
  /\ dpc' = "done"
  /\ UNCHANGED <<points, eps, minPts, labels, runI, clusterId, queue, visited,
                 prevResult>>

\* run is called a second time, on the same algorithm object and point list
RunAgain ==
  /\ dpc = "done"
  /\ prevResult = NotRun
  /\ prevResult' = result
  /\ dpc' = "run"
  /\ UNCHANGED <<points, eps, minPts, labels, runI, clusterId, queue, visited,
                 result>>

NextDbscan ==
  \/ ReturnEmpty /\ UNCHANGED <<gvars, bvars>>
  \/ Begin /\ UNCHANGED <<gvars, bvars>>
  \/ LoopSkip /\ UNCHANGED <<gvars, bvars>>
  \/ LoopNoise /\ UNCHANGED <<gvars, bvars>>
  \/ LoopStartCluster /\ UNCHANGED <<gvars, bvars>>
  \/ ExpandStep /\ UNCHANGED <<gvars, bvars>>
  \/ ExpandReturn /\ UNCHANGED <<gvars, bvars>>
  \/ Return /\ UNCHANGED <<gvars, bvars>>

SpecDbscan == InitDbscan /\ [][NextDbscan]_vars

NextDbscanTwice == NextDbscan \/ (RunAgain /\ UNCHANGED <<gvars, bvars>>)

SpecDbscanTwice == InitDbscan /\ [][NextDbscanTwice]_vars

\* ================================================================= claims

\* C1: in every reachable state of the graph, every stored edge has both its
\* fromNode and its toNode among the ids of the node map.
C1_EdgeEndpointsExist ==
  \A k \in 1..Len(graph.edges) :
    /\ graph.edges[k].fromNode \in MapKeys(graph.nodes)
    /\ graph.edges[k].toNode \in MapKeys(graph.nodes)

\* removeNode has just removed a node together with an edge touching it, and
\* an edge is left
C1_Witness ==
  /\ call.op = "removeNode"
  /\ call.ret
  /\ Len(graph.edges) < Len(call.before.edges)
  /\ Len(graph.edges) > 0

\* C2: addEdge with an edge one of whose endpoints is no node of the graph
\* throws, and the graph's edges and nodes are what they were before the call.
C2_AddEdgeRejected ==
  (/\ call.op = "addEdge"
   /\ \/ call.arg.fromNode \notin MapKeys(call.before.nodes)
      \/ call.arg.toNode \notin MapKeys(call.before.nodes))
  => /\ call.threw
     /\ graph.edges = call.before.edges
     /\ graph.nodes = call.before.nodes

\* addEdge was called on a graph that has an edge, with an edge whose source
\* is a node of the graph and whose target is not
C2_Witness ==
  /\ call.op = "addEdge"
  /\ call.arg.fromNode \in MapKeys(call.before.nodes)
  /\ call.arg.toNode \notin MapKeys(call.before.nodes)
  /\ Len(call.before.edges) > 0

\* C3: removeNode(id) on an id of the graph returns true, removes that node
\* and exactly the edges with id as fromNode or toNode, and keeps every other
\* node and edge (in place); on another id it returns false and changes nothing.
C3_RemoveNodeFrame ==
  call.op = "removeNode" =>
    LET b == call.before
        id == call.arg
    IN IF id \in MapKeys(b.nodes)
       THEN /\ call.ret
            /\ id \notin MapKeys(graph.nodes)
            /\ Range(graph.nodes) = {n \in Range(b.nodes) : n.id # id}
            /\ Len(graph.nodes) = Len(b.nodes) - 1
            /\ Range(graph.edges) =
                 {e \in Range(b.edges) : e.fromNode # id /\ e.toNode # id}
            /\ Cardinality(Range(graph.edges)) = Len(graph.edges)
       ELSE ~call.ret /\ graph = b

\* removeNode removed a node, an edge that ends in it, and left a node and an
\* edge in the graph
C3_Witness ==
  /\ call.op = "removeNode"
  /\ call.ret
  /\ \E e \in Range(call.before.edges) :
       e.toNode = call.arg /\ e.fromNode # call.arg
  /\ Len(graph.edges) > 0
  /\ Len(graph.nodes) > 0

\* C4: the graph parsed from a graph's serialised form has the same node
\* count, the same edge count and the same number of nodes of each type.
C4_RoundTripCounts ==
  call.op = "roundTrip" =>
    /\ nodeCount(graph) = nodeCount(call.before)
    /\ edgeCount(graph) = edgeCount(call.before)
    /\ \A t \in NodeTypes :
         Len(getNodesByType(graph, t)) = Len(getNodesByType(call.before, t))

\* C5: fromJSON does not fail on a bad node record: it returns a graph that
\* holds one file/text node per file/text record with a sound size, the groups
\* of the sound group records, and nothing for a record of another type; a
\* missing width is 250 and a missing height is 150.
SoundRecord(rec) ==
  /\ "type" \in DOMAIN rec
  /\ rec.type \in NodeTypes
  /\ "width" \in DOMAIN rec => rec.width >= 0
  /\ "height" \in DOMAIN rec => rec.height >= 0
ExpectedWidth(rec) == IF "width" \in DOMAIN rec THEN rec.width ELSE 250
ExpectedHeight(rec) == IF "height" \in DOMAIN rec THEN rec.height ELSE 150
C6_GroupsFirst ==
  LET out == toCanvasFormat(graph).nodes
  IN /\ \A i, j \in 1..Len(out) :
          (i < j /\ out[j].type = "group") => out[i].type = "group"
     /\ Len(out) = Len(graph.nodes)
     /\ \A n \in Range(graph.nodes) :
          Cardinality({k \in 1..Len(out) : out[k].id = n.id}) = 1

\* the graph holds a group that was added after a node of another type
C6_Witness ==
  \E i, j \in 1..Len(graph.nodes) :
    i < j /\ graph.nodes[i].type # "group" /\ graph.nodes[j].type = "group"

\* ---------------------------------------------------------- DBSCAN claims
DistinctIds ==
  \A j, k \in 1..Len(points) : j # k => points[j].id # points[k].id
DistinctCoordinates ==
  \A j, k \in 1..Len(points) :
    j # k => (points[j].x # points[k].x \/ points[j].y # points[k].y)
\* how many times point k occurs in the member lists and the noise list
Occurrences(res, k) ==
  LET inList(l) == Cardinality({m \in 1..Len(l) : l[m] = k})
      perCluster(c) == inList(c.points)
  IN SumOver(perCluster, res.clusters) + inList(res.noise)
\* a point whose eps-neighbourhood, itself included, has at least minPts points
IsCore(k) ==
  Cardinality({j \in 1..Len(points) : distanceWithin(points[k], points[j], eps)})
    >= minPts

\* C7: for points with distinct ids, when run returns every point is in
\* exactly one of the member lists and the noise list, the assignments map
\* gives each point the id of its cluster (-1 for noise), no cluster is empty,
\* and the j-th returned cluster has id j - 1.
C7_Partition ==
  (dpc = "done" /\ DistinctIds) =>
    /\ \A k \in 1..Len(points) : Occurrences(result, k) = 1
    /\ \A j \in 1..Len(result.clusters) :
         /\ result.clusters[j].clusterId = j - 1
         /\ Len(result.clusters[j].points) > 0
         /\ \A m \in 1..Len(result.clusters[j].points) :
              LET k == result.clusters[j].points[m]
              IN k \in 1..Len(points) /\ result.assignments[points[k].id] = j - 1
    /\ \A m \in 1..Len(result.noise) :
         LET k == result.noise[m]
         IN k \in 1..Len(points) /\ result.assignments[points[k].id] = 0 - 1
    /\ DOMAIN result.assignments = {points[k].id : k \in 1..Len(points)}

\* run returned a cluster of two or more points and a noise point
C7_Witness ==
  /\ dpc = "done"
  /\ DistinctIds
  /\ Len(result.clusters) >= 1
  /\ Len(result.clusters[1].points) >= 2
  /\ result.noise # <<>>

\* C8: when expandCluster takes from its queue a point it has not visited and
\* that is labelled noise, the point gets the cluster's id; and when run has
\* returned, no point of the noise list is within eps of a core point.
C8_NoiseReclassified ==
  /\ [][(/\ dpc = "expand"
         /\ queue # <<>>
         /\ Head(queue) \notin visited
         /\ labels[Head(queue)] = Noise)
        => labels'[Head(queue)] = clusterId]_vars
  /\ [](dpc = "done" =>
          \A m \in 1..Len(result.noise) :
            \A c \in 1..Len(points) :
              IsCore(c) =>
                ~distanceWithin(points[result.noise[m]], points[c], eps))

\* expandCluster has labelled with its cluster a point the for loop had passed
\* before the cluster's first point: the point was noise until then
C8_Witness ==
  /\ dpc = "expand"
  /\ \E k \in 1..Len(points) : k < runI /\ labels[k] = clusterId

\* C9: a second run on the same points, eps and minPts returns the same
\* clusters (ids and members), noise list and assignments as the first.
C9_Deterministic ==
  (dpc = "done" /\ prevResult # NotRun) => result = prevResult

\* the second run returned, with a cluster and a noise point
C9_Witness ==
  /\ dpc = "done"
  /\ prevResult # NotRun
  /\ Len(result.clusters) >= 1
  /\ result.noise # <<>>

\* C10 as claimed: with eps = 0, for every point list, each point is a
\* cluster of its own when minPts <= 1 and every point is noise when
\* minPts > 1.
C10_EpsZeroAnyList ==
  (dpc = "done" /\ eps = 0) =>
    IF minPts <= 1
    THEN /\ Len(result.clusters) = Len(points)
         /\ \A j \in 1..Len(result.clusters) : Len(result.clusters[j].points) = 1
         /\ result.noise = <<>>
    ELSE /\ result.clusters = <<>>
         /\ Len(result.noise) = Len(points)

\* C10 as amended: the same, for the point lists in which no two points
\* have the same coordinates.
C10_EpsZeroDistinct ==
  (dpc = "done" /\ eps = 0 /\ DistinctCoordinates) =>
    IF minPts <= 1
    THEN /\ Len(result.clusters) = Len(points)
         /\ \A j \in 1..Len(result.clusters) : Len(result.clusters[j].points) = 1
         /\ result.noise = <<>>
    ELSE /\ result.clusters = <<>>
         /\ Len(result.noise) = Len(points)

\* run returned on three points at three places with eps = 0 and minPts = 1
C10_Witness ==
  /\ dpc = "done"
  /\ eps = 0
  /\ minPts = 1
  /\ DistinctCoordinates
  /\ Len(points) = 3
  /\ Len(result.clusters) = 3

\* C11: when run has returned with minPts = 2, every group of two or more
\* points that are mutually within eps of one another lies in exactly one
\* cluster, which holds all of them, and every point farther than eps from every
\* other point is returned as noise and is in no cluster.
SquaredDistance(a, b) ==
  (points[a].x - points[b].x) * (points[a].x - points[b].x)
    + (points[a].y - points[b].y) * (points[a].y - points[b].y)
MutuallyWithin(S) ==
  \A a \in S : \A b \in S : SquaredDistance(a, b) <= eps * eps
Isolated(k) ==
  \A j \in 1..Len(points) : j # k => SquaredDistance(k, j) > eps * eps
ClustersOf(k) ==
  {j \in 1..Len(result.clusters) : k \in Range(result.clusters[j].points)}
C11_GroupOneCluster ==
  (dpc = "done" /\ minPts = 2) =>
    /\ \A S \in SUBSET (1..Len(points)) :
         (Cardinality(S) >= 2 /\ MutuallyWithin(S)) =>
           \E j \in 1..Len(result.clusters) :
             \A a \in S : ClustersOf(a) = {j} /\ a \notin Range(result.noise)
    /\ \A k \in 1..Len(points) :
         Isolated(k) => ClustersOf(k) = {} /\ k \in Range(result.noise)

\* run has returned, minPts = 2: three points mutually within eps make the one
\* cluster of the result and a fourth point, farther than eps from each of
\* them, is its noise
C11_Witness ==
  /\ dpc = "done" /\ minPts = 2 /\ eps > 0 /\ Len(points) = 4
  /\ MutuallyWithin({1, 2, 3})
  /\ Isolated(4)
  /\ Len(result.clusters) = 1
  /\ result.clusters[1].points = <<1, 2, 3>>
  /\ result.noise = <<4>>

\* ===================================================================== MDS
MaxVectors == 2     \* vectors of a projection, notes of a build, in the model
MaxDim == 3         \* length of a vector in the model

\* DEFAULT_OPTIONS of MDSAlgorithm and of CanvasBuilderService
DefaultCanvasWidth == 2000
DefaultCanvasHeight == 1500
DefaultPadding == 100

\* the sum of a[i] * b[i] over the indices of a
RECURSIVE dotProduct(_, _)
dotProduct(a, b) ==
  IF a = <<>> \/ b = <<>> THEN 0
  ELSE Head(a) * Head(b) + dotProduct(Tail(a), Tail(b))

\* A similarity the code computed, dotProduct / (normA * normB) with
\* normA = Math.sqrt(sqA) and normB = Math.sqrt(sqB), kept as its three exact
\* integers (sums of products of small integers are exact in a double).
Similarity(dot, sqA, sqB) == [dot |-> dot, sqA |-> sqA, sqB |-> sqB]

\* the number 0, which both cosineSimilarity return when a norm is 0
ZeroSimilarity == Similarity(0, 1, 1)

\* How the double Math.sqrt(sqA) * Math.sqrt(sqB) compares with the real
\* number sqrt(sqA * sqB) when that is an integer: 1 above, 0 equal, -1 below.
\* In IEEE-754 double arithmetic sqrt(2) * sqrt(2) is 2.0000000000000004,
\* sqrt(3) * sqrt(3) is 2.9999999999999996, sqrt(5) * sqrt(5) is
\* 5.000000000000001, and the products of the roots of 1 and 4 are exact.
productRounding(sqA, sqB) ==
  IF sqA = sqB /\ sqA \in {2, 5} THEN 1
  ELSE IF sqA = sqB /\ sqA = 3 THEN 0 - 1
  ELSE 0

\* similarity >= threshold on doubles, the threshold being the double nearest
\* to num / den (0 <= num, 0 < den). Apart from a tie the doubles compare as
\* the real numbers do; at a tie the rounding of the product of norms decides.
similarityAtLeast(s, threshold) ==
  LET lhs == s.dot * s.dot * threshold.den * threshold.den
      rhs == threshold.num * threshold.num * s.sqA * s.sqB
  IN IF s.dot < 0 THEN FALSE
     ELSE IF lhs # rhs THEN lhs > rhs
     ELSE s.dot = 0 \/ productRounding(s.sqA, s.sqB) <= 0

\* similarity > 1 on doubles: the vectors are parallel (dot * dot = sqA * sqB)
\* and the product of the norms was rounded down
similarityAboveOne(s) ==
  /\ s.dot > 0
  /\ s.dot * s.dot = s.sqA * s.sqB
  /\ productRounding(s.sqA, s.sqB) < 0

\* a cosineSimilarity that returns 0 when the lengths differ, as the one of
\* CanvasBuilderService does
mdsCosineSimilarityLenient(a, b) ==
  IF Len(a) # Len(b) \/ dotProduct(a, a) = 0 \/ dotProduct(b, b) = 0
  THEN [threw |-> FALSE, similarity |-> ZeroSimilarity]
  ELSE [threw |-> FALSE,
        similarity |-> Similarity(dotProduct(a, b), dotProduct(a, a),
                                  dotProduct(b, b))]

\* MDSAlgorithm.cosineSimilarity: throws when the lengths differ
mdsCosineSimilarity(a, b) ==
  IF Len(a) # Len(b) THEN [threw |-> TRUE]
  ELSE IF dotProduct(a, a) = 0 \/ dotProduct(b, b) = 0
       THEN [threw |-> FALSE, similarity |-> ZeroSimilarity]
       ELSE [threw |-> FALSE,
             similarity |-> Similarity(dotProduct(a, b), dotProduct(a, a),
                                       dotProduct(b, b))]

\* An entry of a matrix of doubles is kept as "finite" or "NaN".
\* Math.sqrt(2 * (1 - similarity)) is NaN when similarity > 1.
distanceEntry(s) == IF similarityAboveOne(s) THEN "NaN" ELSE "finite"

\* computeDistanceMatrix: throws at the first pair of vectors of different
\* lengths, else the n x n matrix with 0 on the diagonal
computeDistanceMatrix(vectors) ==
  LET n == Len(vectors)
  IN IF \E i \in 1..n : \E j \in (i + 1)..n :
          mdsCosineSimilarity(vectors[i], vectors[j]).threw
     THEN [threw |-> TRUE]
     ELSE [threw |-> FALSE,
           matrix |-> [i \in 1..n |-> [j \in 1..n |->
             IF i = j THEN "finite"
             ELSE distanceEntry(mdsCosineSimilarity(vectors[i], vectors[j]).similarity)]]]

\* doubleCentering: every entry of B has grandMean, the mean of all the
\* squared entries of D, as a term, so one NaN in D makes all of B NaN
doubleCentering(D) ==
  LET n == Len(D)
      grandMean == IF \E i \in 1..n : \E j \in 1..n : D[i][j] = "NaN"
                   THEN "NaN" ELSE "finite"
  IN [i \in 1..n |-> [j \in 1..n |-> grandMean]]

\* new Coordinate(NaN, NaN)
NaNCoordinate == [nan |-> TRUE]
Coordinate(x, y) == [x |-> x, y |-> y]

\* extractCoordinates. On a matrix of NaN powerIteration never converges and
\* returns NaN eigenvalues and eigenvectors. On a finite matrix it starts from
\* Math.random() vectors and returns finite ones: the arrays x and y are then
\* any of the arrays `projected` ranges over.
extractCoordinates(B, projected) ==
  IF B[1][1] = "NaN" THEN [nan |-> TRUE]
  ELSE [nan |-> FALSE, x |-> projected.x, y |-> projected.y]

\* Math.min(...x) and Math.max(...x)
SeqMin(x) == CHOOSE v \in Range(x) : \A w \in Range(x) : v <= w
SeqMax(x) == CHOOSE v \in Range(x) : \A w \in Range(x) : v >= w

\* One axis of scaleToCanvas: Math.round(padding + ((v - min) / (max - min)) *
\* effective), min and max moved apart by 1 each when they are equal
scaleAxis(x, k, size, padding) ==
  LET lo == IF SeqMax(x) = SeqMin(x) THEN SeqMin(x) - 1 ELSE SeqMin(x)
      hi == IF SeqMax(x) = SeqMin(x) THEN SeqMax(x) + 1 ELSE SeqMax(x)
      effective == size - 2 * padding
  IN padding + roundDiv((x[k] - lo) * effective, hi - lo)

\* scaleToCanvas: NaN arrays give NaN coordinates (Math.min of NaN is NaN,
\* NaN === NaN is false, Math.round(NaN) is NaN)
scaleToCanvas(xy, n, options) ==
  IF xy.nan THEN [k \in 1..n |-> NaNCoordinate]
  ELSE [k \in 1..n |->
          Coordinate(scaleAxis(xy.x, k, options.canvasWidth, options.padding),
                     scaleAxis(xy.y, k, options.canvasHeight, options.padding))]

\* the single point of run with both coordinates taken from the width
centerOfWidth(options) ==
  Coordinate(options.canvasWidth \div 2, options.canvasWidth \div 2)

\* run, one vector: (canvasWidth / 2, canvasHeight / 2); the canvas sizes of
\* the model are even
centerOf(options) ==
  Coordinate(options.canvasWidth \div 2, options.canvasHeight \div 2)

\* coordinates.set(id, scaledCoords[i]) for each id in turn
RECURSIVE setCoordinates(_, _, _)
setCoordinates(map, ids, coords) ==
  IF ids = <<>> THEN map
  ELSE setCoordinates(MapSet(map, [id |-> Head(ids), coordinate |-> Head(coords)]),
                      Tail(ids), Tail(coords))

\* MDSAlgorithm.run: [threw, coordinates], coordinates a Map of
\* [id, coordinate] entries
mdsRun(input, options, projected) ==
  LET vectors == input.vectors
      ids == input.ids
      n == Len(vectors)
      D == computeDistanceMatrix(vectors)
  IN IF n # Len(ids) THEN [threw |-> TRUE, coordinates |-> <<>>]
     ELSE IF n = 0 THEN [threw |-> FALSE, coordinates |-> <<>>]
     ELSE IF n = 1
     THEN [threw |-> FALSE,
           coordinates |-> <<[id |-> ids[1], coordinate |-> centerOf(options)]>>]
     ELSE IF D.threw THEN [threw |-> TRUE, coordinates |-> <<>>]
     ELSE LET B == doubleCentering(D.matrix)
              xy == extractCoordinates(B, projected)
              scaledCoords == scaleToCanvas(xy, n, options)
          IN [threw |-> FALSE,
              coordinates |-> setCoordinates(<<>>, ids, scaledCoords)]

\* ------------------------------------------------------------------ inputs
\* The vectors of the model: of each length the vector of ones, the first
\* unit vector and the zero vector.
Vectors ==
  UNION {{[k \in 1..d |-> 1], [k \in 1..d |-> IF k = 1 THEN 1 ELSE 0],
          [k \in 1..d |-> 0]} : d \in 1..MaxDim}
VectorLists == SeqsUpTo(Vectors, MaxVectors)
IdLists == {[k \in 1..n |-> k] : n \in 0..MaxVectors}
MdsOptions ==
  {[canvasWidth |-> DefaultCanvasWidth, canvasHeight |-> DefaultCanvasHeight,
    padding |-> DefaultPadding],
   [canvasWidth |-> 400, canvasHeight |-> 200, padding |-> 50]}
\* what extractCoordinates may return on a finite matrix of size n
ProjectedValues == 0..1
Projections(n) ==
  {[x |-> x, y |-> y] : x \in [1..n -> ProjectedValues],
                        y \in [1..n -> ProjectedValues]}

InitMds ==
  /\ GraphIdle
  /\ DbscanIdle
  /\ edgeRun = NotCalled /\ overlapRun = NotCalled /\ build = NotCalled
  /\ \E vectors \in VectorLists, ids \in IdLists, options \in MdsOptions :
       mds = [op |-> "new", input |-> [vectors |-> vectors, ids |-> ids],
              options |-> options]

\* new MDSAlgorithm(options).run(input)
RunMds ==
  /\ mds.op = "new"
  /\ \E projected \in Projections(Len(mds.input.vectors)) :
       mds' = [op |-> "run", input |-> mds.input, options |-> mds.options,
               output |-> mdsRun(mds.input, mds.options, projected)]
  /\ UNCHANGED <<edgeRun, overlapRun, build>>

NextMds == RunMds /\ UNCHANGED <<gvars, dvars>>

SpecMds == InitMds /\ [][NextMds]_vars

\* C12: MDSAlgorithm.run on no vector (and no id) returns the empty mapping,
\* and on one vector returns the mapping of its id to the centre of the
\* rectangle, (canvasWidth / 2, canvasHeight / 2), whatever the vector holds.
C12_EmptyAndSingle ==
  (mds.op = "run" /\ Len(mds.input.ids) = Len(mds.input.vectors)) =>
    /\ Len(mds.input.vectors) = 0 =>
         ~mds.output.threw /\ mds.output.coordinates = <<>>
    /\ Len(mds.input.vectors) = 1 =>
         /\ ~mds.output.threw
         /\ Len(mds.output.coordinates) = 1
         /\ mds.output.coordinates[1].id = mds.input.ids[1]
         /\ 2 * mds.output.coordinates[1].coordinate.x = mds.options.canvasWidth
         /\ 2 * mds.output.coordinates[1].coordinate.y = mds.options.canvasHeight

\* run has returned the centre for a single vector, a zero vector of length 3
C12_Witness ==
  /\ mds.op = "run"
  /\ mds.input.vectors = <<(<<0, 0, 0>>)>>
  /\ mds.input.ids = <<1>>
  /\ mds.output.coordinates = <<[id |-> 1, coordinate |-> [x |-> 1000, y |-> 750]]>>

\* every vector of the list has the length of the first
EqualLengths(vectors) ==
  \A i \in 1..Len(vectors) : \A j \in 1..Len(vectors) :
    Len(vectors[i]) = Len(vectors[j])

InCanvas(c, options) ==
  /\ c # NaNCoordinate
  /\ options.padding <= c.x /\ c.x <= options.canvasWidth - options.padding
  /\ options.padding <= c.y /\ c.y <= options.canvasHeight - options.padding

\* C13: for every valid input (vectors of equal lengths, one id per vector)
\* MDSAlgorithm.run returns exactly one coordinate per input id, and every
\* returned coordinate has x in [padding, canvasWidth - padding] and y in
\* [padding, canvasHeight - padding].
C13_BoundsLaw ==
  (/\ mds.op = "run"
   /\ Len(mds.input.ids) = Len(mds.input.vectors)
   /\ EqualLengths(mds.input.vectors)) =>
    /\ ~mds.output.threw
    /\ Len(mds.output.coordinates) = Len(mds.input.ids)
    /\ \A k \in 1..Len(mds.input.ids) :
         /\ mds.output.coordinates[k].id = mds.input.ids[k]
         /\ InCanvas(mds.output.coordinates[k].coordinate, mds.options)

\* ========================================================= resolveOverlaps
MaxBoxes == 3       \* nodes handed to resolveOverlaps in the model
MaxDistance == 400  \* the largest centre distance of two overlapping nodes

\* new FileNode(id, position, dimension, filePath)
FileNode(id, position, dim, filePath) ==
  [id |-> id, type |-> "file", position |-> position,
   width |-> dim.width, height |-> dim.height, filePath |-> filePath]

\* CanvasNode.center; the widths and heights of the model are even
center(n) ==
  Coordinate(n.position.x + n.width \div 2, n.position.y + n.height \div 2)

\* CanvasNode.moveBy; NaN + d is NaN
moveBy(n, dx, dy) ==
  IF n.position = NaNCoordinate THEN n
  ELSE [n EXCEPT !.position = Coordinate(n.position.x + dx, n.position.y + dy)]

\* overlaps that holds of every pair of nodes
overlapsAlways(a, b) == TRUE

\* CanvasNode.overlaps: the negation of four < comparisons, each of which is
\* false when a side is NaN
overlaps(a, b) ==
  IF a.position = NaNCoordinate \/ b.position = NaNCoordinate THEN TRUE
  ELSE ~(\/ a.position.x + a.width < b.position.x
         \/ b.position.x + b.width < a.position.x
         \/ a.position.y + a.height < b.position.y
         \/ b.position.y + b.height < a.position.y)

\* Math.max(nodeWidth, nodeHeight) + 20
minDistanceOf(options) ==
  (IF options.nodeWidth >= options.nodeHeight
   THEN options.nodeWidth ELSE options.nodeHeight) + 20

\* The body of `if (nodeA.overlaps(nodeB))`: the two nodes after the push.
\* `exact` tells whether the distance and the push are integers, which is
\* where the model follows the arithmetic of the code.
pushPair(a, b, minDistance, jitter) ==
  IF a.position = NaNCoordinate \/ b.position = NaNCoordinate
  THEN [a |-> [a EXCEPT !.position = NaNCoordinate],
        b |-> [b EXCEPT !.position = NaNCoordinate], exact |-> TRUE]
  ELSE
    LET cx == center(b).x - center(a).x
        cy == center(b).y - center(a).y
        dx == IF cx = 0 /\ cy = 0 THEN jitter.x ELSE cx
        dy == IF cx = 0 /\ cy = 0 THEN jitter.y ELSE cy
        sq == dx * dx + dy * dy
        distance == CHOOSE r \in 0..MaxDistance : r * r = sq
        twicePush == minDistance - distance + 20     \* 2 * pushDistance
        pushX == (dx * twicePush) \div (2 * distance)
        pushY == (dy * twicePush) \div (2 * distance)
    IN IF sq = 0      \* dx / distance is 0 / 0
       THEN [a |-> [a EXCEPT !.position = NaNCoordinate],
             b |-> [b EXCEPT !.position = NaNCoordinate], exact |-> TRUE]
       ELSE IF /\ \E r \in 0..MaxDistance : r * r = sq
               /\ (dx * twicePush) % (2 * distance) = 0
               /\ (dy * twicePush) % (2 * distance) = 0
       THEN [a |-> moveBy(a, 0 - pushX, 0 - pushY),
             b |-> moveBy(b, pushX, pushY), exact |-> TRUE]
       ELSE [a |-> a, b |-> b, exact |-> FALSE]

\* the pairs (i, j), i < j <= n, in the order of the two for loops
RECURSIVE pairsFrom(_, _, _)
pairsFrom(i, j, n) ==
  IF i >= n THEN <<>>
  ELSE IF j > n THEN pairsFrom(i + 1, i + 2, n)
  ELSE <<(<<i, j>>)>> \o pairsFrom(i, j + 1, n)

\* One pass of the outer loop over the given pairs, on [nodes, hasOverlap,
\* exact]; jitters[k] is the jitter drawn if the pair with k pairs left to go
\* has coinciding centres
RECURSIVE passOver(_, _, _, _)
passOver(st, pairs, minDistance, jitters) ==
  IF pairs = <<>> \/ ~st.exact THEN st
  ELSE LET i == Head(pairs)[1]
           j == Head(pairs)[2]
           p == pushPair(st.nodes[i], st.nodes[j], minDistance,
                         jitters[Len(pairs)])
       IN IF overlaps(st.nodes[i], st.nodes[j])
          THEN passOver([nodes |-> [st.nodes EXCEPT ![i] = p.a, ![j] = p.b],
                         hasOverlap |-> TRUE, exact |-> p.exact],
                        Tail(pairs), minDistance, jitters)
          ELSE passOver(st, Tail(pairs), minDistance, jitters)

\* ------------------------------------------------------------------ inputs
\* (Math.random() - 0.5) * 10 for dx and for dy: a value of [-5, 5), which is
\* 0 when Math.random() returns 0.5
Jitters == {Coordinate(4, 0), Coordinate(0, 0 - 4), Coordinate(0, 0)}
JitterLists(n) == [1..Len(pairsFrom(1, 2, n)) -> Jitters]
\* nodeWidth and nodeHeight of the builder's options
NodeSizes ==
  {[nodeWidth |-> DefaultNodeWidth, nodeHeight |-> DefaultNodeHeight],
   [nodeWidth |-> 240, nodeHeight |-> 180]}
BoxPositions ==
  {Coordinate(0, 0), Coordinate(100, 0), Coordinate(240, 180),
   Coordinate(1000, 0), Coordinate(0, 400)}
IterationValues == {0, 1, 2, 10}
BoxLists(size) ==
  UNION {{[k \in 1..n |->
             FileNode(<<"file", k>>, pos[k],
                      [width |-> size.nodeWidth, height |-> size.nodeHeight], k)] :
            pos \in [1..n -> BoxPositions]} : n \in 0..MaxBoxes}

\* a pass without the break: the loop goes on whatever the pass found
afterPassNoBreak(hasOverlap) == "loop"

\* if (!hasOverlap) break
afterPass(hasOverlap) == IF hasOverlap THEN "loop" ELSE "done"

InitOverlaps ==
  /\ GraphIdle
  /\ DbscanIdle
  /\ mds = NotCalled /\ edgeRun = NotCalled /\ build = NotCalled
  /\ \E size \in NodeSizes, iterations \in IterationValues :
       \E nodes \in BoxLists(size) :
         overlapRun = [op |-> "loop", options |-> size, input |-> nodes,
                       iterations |-> iterations, nodes |-> nodes, iter |-> 0,
                       passes |-> 0, hasOverlap |-> FALSE]

\* one pass of `for (let iter = 0; iter < iterations; iter++)`, with the
\* `if (!hasOverlap) break` that ends it
OverlapPass ==
  /\ overlapRun.op = "loop"
  /\ overlapRun.iter < overlapRun.iterations
  /\ \E jitters \in JitterLists(Len(overlapRun.nodes)) :
       LET r == passOver([nodes |-> overlapRun.nodes, hasOverlap |-> FALSE,
                          exact |-> TRUE],
                         pairsFrom(1, 2, Len(overlapRun.nodes)),
                         minDistanceOf(overlapRun.options), jitters)
       IN /\ r.exact
          /\ overlapRun' = [overlapRun EXCEPT
               !.nodes = r.nodes,
               !.passes = @ + 1,
               !.hasOverlap = r.hasOverlap,
               !.iter = IF r.hasOverlap THEN @ + 1 ELSE @,
               !.op = afterPass(r.hasOverlap)]
  /\ UNCHANGED <<mds, edgeRun, build>>

\* iter has reached iterations: the loop is left and the method returns
OverlapReturn ==
  /\ overlapRun.op = "loop"
  /\ overlapRun.iter >= overlapRun.iterations
  /\ overlapRun' = [overlapRun EXCEPT !.op = "done"]
  /\ UNCHANGED <<mds, edgeRun, build>>

NextOverlaps ==
  \/ OverlapPass /\ UNCHANGED <<gvars, dvars>>
  \/ OverlapReturn /\ UNCHANGED <<gvars, dvars>>

SpecOverlaps == InitOverlaps /\ [][NextOverlaps]_vars

\* the closed bounding boxes of two nodes have a point in common; a box at
\* NaN lies beside no box
BoxesIntersect(a, b) ==
  \/ a.position = NaNCoordinate
  \/ b.position = NaNCoordinate
  \/ /\ a.position.x <= b.position.x + b.width
     /\ b.position.x <= a.position.x + a.width
     /\ a.position.y <= b.position.y + b.height
     /\ b.position.y <= a.position.y + a.height
SomeIntersect(nodes) ==
  \E i \in 1..Len(nodes) : \E j \in 1..Len(nodes) :
    i < j /\ BoxesIntersect(nodes[i], nodes[j])

\* C17: when no two of the nodes handed to resolveOverlaps have intersecting
\* bounding boxes, every node has, during the call and after it, the position
\* it had before the call.
C17_OverlapFreeUnchanged ==
  (overlapRun.op \in {"loop", "done"} /\ ~SomeIntersect(overlapRun.input)) =>
    \A k \in 1..Len(overlapRun.input) :
      overlapRun.nodes[k].position = overlapRun.input[k].position

\* resolveOverlaps has returned after one pass over three nodes none of which
\* overlapped another, and the three are where they were
C17_Witness ==
  /\ overlapRun.op = "done"
  /\ overlapRun.passes = 1
  /\ Len(overlapRun.input) = 3
  /\ ~SomeIntersect(overlapRun.input)
  /\ overlapRun.nodes = overlapRun.input

\* C18: resolveOverlaps makes at most `iterations` passes over the pairs, each
\* step of the loop being one more pass or the return; a pass that starts with
\* no overlapping pair moves nothing and is the last one, a pass that starts
\* with an overlapping pair is followed by another pass unless `iterations`
\* passes were made; and the call returns also when overlaps remain.
C18_BoundedPasses ==
  /\ [](overlapRun.op \in {"loop", "done"} =>
          /\ overlapRun.passes <= overlapRun.iterations
          /\ (overlapRun.op = "loop" => overlapRun.passes = overlapRun.iter)
          /\ (overlapRun.op = "done" =>
                \/ ~SomeIntersect(overlapRun.nodes)
                \/ overlapRun.passes = overlapRun.iterations))
  /\ [][overlapRun.op = "loop" =>
          \/ /\ overlapRun'.passes = overlapRun.passes
             /\ overlapRun.passes = overlapRun.iterations
             /\ overlapRun'.op = "done"
             /\ overlapRun'.nodes = overlapRun.nodes
          \/ /\ overlapRun'.passes = overlapRun.passes + 1
             /\ ~SomeIntersect(overlapRun.nodes)
             /\ overlapRun'.op = "done"
             /\ overlapRun'.nodes = overlapRun.nodes
          \/ /\ overlapRun'.passes = overlapRun.passes + 1
             /\ SomeIntersect(overlapRun.nodes)
             /\ overlapRun'.op = "loop"]_vars

\* resolveOverlaps has returned after its tenth pass with two nodes still
\* overlapping
C18_Witness ==
  /\ overlapRun.op = "done"
  /\ overlapRun.iterations = 10
  /\ overlapRun.passes = 10
  /\ SomeIntersect(overlapRun.nodes)

\* ============================================================= createEdges
MaxNotes == 3       \* notes handed to createEdges in the model

\* CanvasBuilderService.cosineSimilarity: 0 when the lengths differ
builderCosineSimilarity(a, b) ==
  IF Len(a) # Len(b) THEN ZeroSimilarity
  ELSE IF dotProduct(a, a) = 0 \/ dotProduct(b, b) = 0 THEN ZeroSimilarity
  ELSE Similarity(dotProduct(a, b), dotProduct(a, a), dotProduct(b, b))

\* similarity > threshold: a similarity equal to the threshold is left out
meetsThresholdStrictly(similarity, threshold) ==
  /\ similarityAtLeast(similarity, threshold)
  /\ ~(/\ similarity.dot * similarity.dot * threshold.den * threshold.den
            = threshold.num * threshold.num * similarity.sqA * similarity.sqB
       /\ (similarity.dot = 0
             \/ productRounding(similarity.sqA, similarity.sqB) = 0))

\* if (similarity >= threshold)
meetsThreshold(similarity, threshold) == similarityAtLeast(similarity, threshold)

\* the pair key with the ids in the order of the pair
pairKeyUnsorted(idA, idB) == idA \o idB

\* [nodeA.id, nodeB.id].sort().join('-'): the two ids in the one order sort
\* gives them, joined; the ids of the model are ordered by their counter
pairKey(idA, idB) == IF idA[2] <= idB[2] THEN idA \o idB ELSE idB \o idA

\* CanvasEdge.createConnection(fromNode, toNode, ...): the edge and the counter
createConnection(fromNode, toNode, counter) ==
  [edge |-> CanvasEdge(generateEdgeId(counter), fromNode, toNode),
   counter |-> counter + 1]

\* The two for loops of createEdges over the given pairs, on
\* [edges, processed, counter]; nodeMap is a function from note ids to nodes
RECURSIVE createEdgesOver(_, _, _, _, _)
createEdgesOver(st, pairs, notes, nodeMap, threshold) ==
  IF pairs = <<>> THEN st
  ELSE
    LET i == Head(pairs)[1]
        j == Head(pairs)[2]
        similarity == builderCosineSimilarity(notes[i].vector, notes[j].vector)
        found == /\ notes[i].noteId \in DOMAIN nodeMap
                 /\ notes[j].noteId \in DOMAIN nodeMap
        nodeA == nodeMap[notes[i].noteId]
        nodeB == nodeMap[notes[j].noteId]
        key == pairKey(nodeA.id, nodeB.id)
        c == createConnection(nodeA.id, nodeB.id, st.counter)
    IN IF meetsThreshold(similarity, threshold) /\ found /\ key \notin st.processed
       THEN createEdgesOver([edges |-> Append(st.edges, c.edge),
                             processed |-> st.processed \cup {key},
                             counter |-> c.counter],
                            Tail(pairs), notes, nodeMap, threshold)
       ELSE createEdgesOver(st, Tail(pairs), notes, nodeMap, threshold)

\* createEdges(notes, nodeMap, threshold): [edges, counter]
createEdges(notes, nodeMap, threshold, counter) ==
  LET st == createEdgesOver([edges |-> <<>>, processed |-> {}, counter |-> counter],
                            pairsFrom(1, 2, Len(notes)), notes, nodeMap, threshold)
  IN [edges |-> st.edges, counter |-> st.counter]

\* ------------------------------------------------------------------ inputs
\* DEFAULT_OPTIONS.edgeThreshold, 0.7
DefaultEdgeThreshold == [num |-> 7, den |-> 10]
Thresholds ==
  {[num |-> 0, den |-> 1], [num |-> 1, den |-> 2], DefaultEdgeThreshold,
   [num |-> 1, den |-> 1]}
\* the vectors of notes: of each length the vector of ones and the first unit
\* vector, and the zero vector of length 1
NoteVectors ==
  {<<0>>} \cup
  UNION {{[k \in 1..d |-> 1], [k \in 1..d |-> IF k = 1 THEN 1 ELSE 0]} :
           d \in 1..MaxDim}
\* the note ids of a list of n notes: all distinct, or the first two the same
NoteIdLists(n) ==
  {[k \in 1..n |-> k]} \cup
  (IF n >= 2 THEN {[k \in 1..n |-> IF k = 2 THEN 1 ELSE k]} ELSE {})
NoteLists(max) ==
  UNION {{[k \in 1..n |-> [noteId |-> ids[k], path |-> k, vector |-> vs[k]]] :
            vs \in [1..n -> NoteVectors], ids \in NoteIdLists(n)} : n \in 0..max}

\* noteIdToNode as buildCanvas fills it: the node of the k-th note under the
\* note's id, a later note of the same id replacing the earlier one
noteIdToNodeOf(notes, nodes) ==
  [id \in {notes[k].noteId : k \in 1..Len(notes)} |->
     nodes[CHOOSE k \in 1..Len(notes) :
             /\ notes[k].noteId = id
             /\ \A m \in 1..Len(notes) : notes[m].noteId = id => m <= k]]

\* one file node per note, of the default size at the origin
nodesOfNotes(notes) ==
  [k \in 1..Len(notes) |->
     FileNode(<<"file", k>>, Coordinate(0, 0), defaultNode, notes[k].path)]

InitEdges ==
  /\ GraphIdle
  /\ DbscanIdle
  /\ mds = NotCalled /\ overlapRun = NotCalled /\ build = NotCalled
  /\ \E notes \in NoteLists(MaxNotes), threshold \in Thresholds :
       edgeRun = [op |-> "new", notes |-> notes, threshold |-> threshold,
                  nodeMap |-> noteIdToNodeOf(notes, nodesOfNotes(notes))]

\* createEdges(notes, nodeMap, threshold)
CreateEdges ==
  /\ edgeRun.op = "new"
  /\ LET r == createEdges(edgeRun.notes, edgeRun.nodeMap, edgeRun.threshold,
                          edgeIdCounter)
     IN /\ edgeRun' = [op |-> "created", notes |-> edgeRun.notes,
                       threshold |-> edgeRun.threshold,
                       nodeMap |-> edgeRun.nodeMap, edges |-> r.edges]
        /\ edgeIdCounter' = r.counter
  /\ UNCHANGED <<graph, nodeIdCounter, call, mds, overlapRun, build>>

\* createEdges is called again on the same notes in another order
CreateEdgesPermuted ==
  /\ edgeRun.op = "created"
  /\ \E perm \in {f \in [1..Len(edgeRun.notes) -> 1..Len(edgeRun.notes)] :
                    \A a, b \in 1..Len(edgeRun.notes) : f[a] = f[b] => a = b} :
       LET permuted == [k \in 1..Len(edgeRun.notes) |-> edgeRun.notes[perm[k]]]
           r == createEdges(permuted, edgeRun.nodeMap, edgeRun.threshold,
                            edgeIdCounter)
       IN /\ edgeRun' = [op |-> "permuted", notes |-> edgeRun.notes,
                         threshold |-> edgeRun.threshold,
                         nodeMap |-> edgeRun.nodeMap, edges |-> edgeRun.edges,
                         permuted |-> permuted, permutedEdges |-> r.edges]
          /\ edgeIdCounter' = r.counter
  /\ UNCHANGED <<graph, nodeIdCounter, call, mds, overlapRun, build>>

NextEdges ==
  \/ CreateEdges /\ UNCHANGED dvars
  \/ CreateEdgesPermuted /\ UNCHANGED dvars

SpecEdges == InitEdges /\ [][NextEdges]_vars

\* the id of the node of the k-th note of the call
NodeIdOfNote(k) == edgeRun.nodeMap[edgeRun.notes[k].noteId].id
Connected(edges, idA, idB) ==
  \E e \in 1..Len(edges) : {edges[e].fromNode, edges[e].toNode} = {idA, idB}
\* the pairs of notes whose computed similarity is at least the threshold
MeetingPairs ==
  {p \in (1..Len(edgeRun.notes)) \X (1..Len(edgeRun.notes)) :
     /\ p[1] < p[2]
     /\ similarityAtLeast(
          builderCosineSimilarity(edgeRun.notes[p[1]].vector,
                                  edgeRun.notes[p[2]].vector),
          edgeRun.threshold)}
DistinctNoteIds ==
  \A i, j \in 1..Len(edgeRun.notes) :
    edgeRun.notes[i].noteId = edgeRun.notes[j].noteId => i = j

SameSimilarity(s, t) ==
  /\ s.dot = t.dot
  /\ \/ s.sqA = t.sqA /\ s.sqB = t.sqB
     \/ s.sqA = t.sqB /\ s.sqB = t.sqA
  /\ \A threshold \in Thresholds :
       similarityAtLeast(s, threshold) <=> similarityAtLeast(t, threshold)
\* the unordered pairs of node ids the edges join
PairsJoined(edges) ==
  {{edges[e].fromNode, edges[e].toNode} : e \in 1..Len(edges)}
OneEdgePerPair(edges) ==
  \A e, f \in 1..Len(edges) :
    {edges[e].fromNode, edges[e].toNode} = {edges[f].fromNode, edges[f].toNode}
      => e = f

\* C20: the similarity of two vectors is the same in either order, createEdges
\* returns at most one edge per unordered pair of nodes, and called on any
\* permutation of the notes it joins the same set of unordered pairs of nodes.
C20_OrderIndependent ==
  edgeRun.op \in {"new", "created", "permuted"} =>
    /\ \A i, j \in 1..Len(edgeRun.notes) :
         SameSimilarity(
           builderCosineSimilarity(edgeRun.notes[i].vector, edgeRun.notes[j].vector),
           builderCosineSimilarity(edgeRun.notes[j].vector, edgeRun.notes[i].vector))
    /\ edgeRun.op \in {"created", "permuted"} => OneEdgePerPair(edgeRun.edges)
    /\ edgeRun.op = "permuted" =>
         /\ OneEdgePerPair(edgeRun.permutedEdges)
         /\ PairsJoined(edgeRun.permutedEdges) = PairsJoined(edgeRun.edges)

\* createEdges has been called on three notes, two of them of the same id, and
\* on the permutation that puts the third note between those two; all three
\* pairs of notes meet the threshold and each call returned the same two pairs
C20_Witness ==
  /\ edgeRun.op = "permuted"
  /\ Len(edgeRun.notes) = 3
  /\ ~DistinctNoteIds
  /\ edgeRun.permuted[1].noteId = edgeRun.permuted[3].noteId
  /\ Cardinality(MeetingPairs) = 3
  /\ Len(edgeRun.edges) = 2
  /\ Len(edgeRun.permutedEdges) = 2
  /\ PairsJoined(edgeRun.permutedEdges) = PairsJoined(edgeRun.edges)

\* ============================================================= buildCanvas
\* DEFAULT_OPTIONS of CanvasBuilderService, the canvas and node sizes apart
DefaultClusterEps == 200
DefaultClusterMinPts == 2
DefaultGroupPadding == 30

\* computePositions: [threw, coordinates]; the ids handed to run are the note
\* ids
computePositions(notes, options, projected) ==
  IF Len(notes) = 0 THEN [threw |-> FALSE, coordinates |-> <<>>]
  ELSE mdsRun([vectors |-> [k \in 1..Len(notes) |-> notes[k].vector],
               ids |-> [k \in 1..Len(notes) |-> notes[k].noteId]],
              options, projected)

\* positions.get(note.noteId) ?? Coordinate.origin()
positionOf(positions, noteId) ==
  IF MapHas(positions, noteId)
  THEN positions[CHOOSE k \in 1..Len(positions) : positions[k].id = noteId].coordinate
  ELSE Coordinate(0, 0)

\* createFileNodes: one FileNode.create per note, in the order of the notes
createFileNodes(notes, positions, options, counter) ==
  [k \in 1..Len(notes) |->
     FileNode(generateNodeId("file", counter + k - 1),
              positionOf(positions, notes[k].noteId),
              [width |-> options.nodeWidth, height |-> options.nodeHeight],
              notes[k].path)]

\* clusterNodes: the points handed to DBSCANAlgorithm.run
pointsOfNodes(nodes) ==
  [k \in 1..Len(nodes) |->
     IF nodes[k].position = NaNCoordinate
     THEN [id |-> nodes[k].id, nan |-> TRUE]
     ELSE [id |-> nodes[k].id, x |-> nodes[k].position.x,
           y |-> nodes[k].position.y]]

\* clusterNodes: each cluster of the result with the nodes of its points, and
\* Step 6 of buildCanvas: the label of clusterLabels, if it has a non-empty one
clustersWithNodes(res, nodes, clusterLabels) ==
  [c \in 1..Len(res.clusters) |->
     [clusterId |-> res.clusters[c].clusterId,
      nodes |-> [m \in 1..Len(res.clusters[c].points) |->
                   nodes[res.clusters[c].points[m]]],
      label |-> IF /\ res.clusters[c].clusterId \in DOMAIN clusterLabels
                   /\ clusterLabels[res.clusters[c].clusterId] # ""
                THEN [text |-> clusterLabels[res.clusters[c].clusterId]]
                ELSE Null]]

\* GroupNode.containsNode: the four comparisons are false when a side is NaN
containsNode(group, node) ==
  /\ node.position # NaNCoordinate
  /\ group.position # NaNCoordinate
  /\ node.position.x >= group.position.x
  /\ node.position.y >= group.position.y
  /\ node.position.x + node.width <= group.position.x + group.width
  /\ node.position.y + node.height <= group.position.y + group.height

\* a fromNodes that adds the padding to the width and the height once
fromNodesPaddedOnce(nodes, padding, label, color, counter) ==
  LET lefts == [k \in 1..Len(nodes) |-> nodes[k].position.x]
      tops == [k \in 1..Len(nodes) |-> nodes[k].position.y]
      rights == [k \in 1..Len(nodes) |-> nodes[k].position.x + nodes[k].width]
      bottoms == [k \in 1..Len(nodes) |-> nodes[k].position.y + nodes[k].height]
  IN [id |-> generateNodeId("group", counter), type |-> "group",
      position |-> Coordinate(SeqMin(lefts) - padding, SeqMin(tops) - padding),
      width |-> SeqMax(rights) - SeqMin(lefts) + padding,
      height |-> SeqMax(bottoms) - SeqMin(tops) + padding,
      label |-> label, color |-> color]

\* GroupNode.fromNodes on a non-empty list of nodes: the bounding box of the
\* nodes, padded
fromNodes(nodes, padding, label, color, counter) ==
  LET lefts == [k \in 1..Len(nodes) |-> nodes[k].position.x]
      tops == [k \in 1..Len(nodes) |-> nodes[k].position.y]
      rights == [k \in 1..Len(nodes) |-> nodes[k].position.x + nodes[k].width]
      bottoms == [k \in 1..Len(nodes) |-> nodes[k].position.y + nodes[k].height]
  IN [id |-> generateNodeId("group", counter), type |-> "group",
      position |-> Coordinate(SeqMin(lefts) - padding, SeqMin(tops) - padding),
      width |-> SeqMax(rights) - SeqMin(lefts) + padding * 2,
      height |-> SeqMax(bottoms) - SeqMin(tops) + padding * 2,
      label |-> label, color |-> color]

\* a createGroupNodes whose default label counts from 0, `Cluster ${index}`
createGroupNodesFromZero(clusters, options, counter) ==
  [c \in 1..Len(clusters) |->
     fromNodes(clusters[c].nodes, options.groupPadding,
               IF clusters[c].label = Null THEN [cluster |-> c - 1]
               ELSE clusters[c].label,
               ((c - 1) % 6) + 1, counter + c - 1)]

\* createGroupNodes: one group per cluster, coloured by NodeColor.byIndex and
\* labelled cluster.label ?? `Cluster ${index + 1}`
createGroupNodes(clusters, options, counter) ==
  [c \in 1..Len(clusters) |->
     fromNodes(clusters[c].nodes, options.groupPadding,
               IF clusters[c].label = Null THEN [cluster |-> c]
               ELSE clusters[c].label,
               ((c - 1) % 6) + 1, counter + c - 1)]

\* ------------------------------------------------------------------ inputs
\* the options a CanvasBuilderService is constructed with
DEFAULT_OPTIONS ==
  [canvasWidth |-> DefaultCanvasWidth, canvasHeight |-> DefaultCanvasHeight,
   padding |-> DefaultPadding, nodeWidth |-> DefaultNodeWidth,
   nodeHeight |-> DefaultNodeHeight, clusterEps |-> DefaultClusterEps,
   clusterMinPts |-> DefaultClusterMinPts,
   edgeThreshold |-> DefaultEdgeThreshold, groupPadding |-> DefaultGroupPadding]
BuilderOptions ==
  {DEFAULT_OPTIONS,
   [canvasWidth |-> 400, canvasHeight |-> 200, padding |-> 50,
    nodeWidth |-> DefaultNodeWidth, nodeHeight |-> DefaultNodeHeight,
    clusterEps |-> 400, clusterMinPts |-> DefaultClusterMinPts,
    edgeThreshold |-> [num |-> 1, den |-> 2], groupPadding |-> 0],
   [canvasWidth |-> DefaultCanvasWidth, canvasHeight |-> DefaultCanvasHeight,
    padding |-> DefaultPadding, nodeWidth |-> DefaultNodeWidth,
    nodeHeight |-> DefaultNodeHeight, clusterEps |-> DefaultClusterEps,
    clusterMinPts |-> 1,
    edgeThreshold |-> DefaultEdgeThreshold, groupPadding |-> DefaultGroupPadding],
   [canvasWidth |-> 400, canvasHeight |-> 200, padding |-> 50,
    nodeWidth |-> DefaultNodeWidth, nodeHeight |-> DefaultNodeHeight,
    clusterEps |-> 400, clusterMinPts |-> DefaultClusterMinPts,
    edgeThreshold |-> DefaultEdgeThreshold, groupPadding |-> DefaultGroupPadding],
   [canvasWidth |-> 400, canvasHeight |-> 200, padding |-> 50,
    nodeWidth |-> DefaultNodeWidth, nodeHeight |-> DefaultNodeHeight,
    clusterEps |-> DefaultClusterEps, clusterMinPts |-> 1,
    edgeThreshold |-> DefaultEdgeThreshold, groupPadding |-> 300]}
\* the options of a buildCanvas call; includeClusterLabels and showEdges are
\* TRUE when left out, edgeThreshold is Null when left out, clusterLabels is
\* the empty function when left out
BuildCallOptions ==
  {[includeClusterLabels |-> TRUE, showEdges |-> TRUE, edgeThreshold |-> Null,
    clusterLabels |-> <<>>],
   [includeClusterLabels |-> FALSE, showEdges |-> TRUE,
    edgeThreshold |-> [num |-> 0, den |-> 1], clusterLabels |-> <<>>],
   [includeClusterLabels |-> TRUE, showEdges |-> FALSE, edgeThreshold |-> Null,
    clusterLabels |-> (0 :> "Topic")],
   [includeClusterLabels |-> TRUE, showEdges |-> FALSE, edgeThreshold |-> Null,
    clusterLabels |-> (0 :> "" @@ 1 :> "Topic")]}
\* the vectors of the notes of a build, of lengths 1, 2 and 3
BuildVectors == {<<1>>, <<1, 0>>, <<1, 1>>, <<1, 1, 1>>}
BuildNoteLists ==
  UNION {{[k \in 1..n |-> [noteId |-> k, path |-> k, vector |-> vs[k]]] :
            vs \in [1..n -> BuildVectors]} : n \in 0..MaxVectors}

\* the iterations of resolveOverlaps when buildCanvas calls it
DefaultIterations == 10

InitBuild ==
  /\ GraphIdle
  /\ DbscanIdle
  /\ mds = NotCalled /\ edgeRun = NotCalled /\ overlapRun = NotCalled
  /\ \E notes \in BuildNoteLists, options \in BuilderOptions,
        callOptions \in BuildCallOptions :
       build = [op |-> "new", notes |-> notes, options |-> options,
                callOptions |-> callOptions]

\* ------------------------------------------------------------------ actions
\* buildCanvas up to the call of resolveOverlaps: the graph is created; with
\* no notes it is returned at once; else Steps 1 to 3. An error of
\* computePositions leaves buildCanvas, which has no try block.
BuildStart ==
  /\ build.op = "new"
  /\ graph' = EmptyGraph
  /\ \E projected \in Projections(Len(build.notes)) :
       LET positions == computePositions(build.notes, build.options, projected)
           fileNodes == createFileNodes(build.notes, positions.coordinates,
                                        build.options, nodeIdCounter)
           run == [op |-> "run",
                   input |-> [vectors |-> [k \in 1..Len(build.notes) |->
                                             build.notes[k].vector],
                              ids |-> [k \in 1..Len(build.notes) |->
                                         build.notes[k].noteId]],
                   options |-> [canvasWidth |-> build.options.canvasWidth,
                                canvasHeight |-> build.options.canvasHeight,
                                padding |-> build.options.padding],
                   output |-> positions]
       IN IF Len(build.notes) = 0
          THEN /\ build' = [build EXCEPT !.op = "returned"] @@ [returned |-> EmptyGraph]
               /\ UNCHANGED <<nodeIdCounter, overlapRun, mds>>
          ELSE IF positions.threw
          THEN /\ build' = [build EXCEPT !.op = "threw"]
               /\ mds' = run
               /\ UNCHANGED <<nodeIdCounter, overlapRun>>
          ELSE /\ build' = [build EXCEPT !.op = "overlaps"]
                             @@ [positions |-> positions.coordinates]
               /\ mds' = run
               /\ nodeIdCounter' = nodeIdCounter + Len(build.notes)
               /\ overlapRun' = [op |-> "loop", options |-> build.options,
                                 input |-> fileNodes,
                                 iterations |-> DefaultIterations,
                                 nodes |-> fileNodes, iter |-> 0, passes |-> 0,
                                 hasOverlap |-> FALSE]
  /\ UNCHANGED <<edgeIdCounter, call, edgeRun>>
  /\ UNCHANGED dvars

\* Step 5 begins: resolveOverlaps has returned, clusterNodes hands the points
\* of the file nodes to this.dbscanAlgorithm.run
BuildCluster ==
  /\ build.op = "overlaps"
  /\ overlapRun.op = "done"
  /\ build' = [build EXCEPT !.op = "cluster"] @@ [fileNodes |-> overlapRun.nodes]
  /\ points' = pointsOfNodes(overlapRun.nodes)
  /\ eps' = build.options.clusterEps
  /\ minPts' = build.options.clusterMinPts
  /\ labels' = <<>> /\ runI' = 0 /\ clusterId' = 0
  /\ queue' = <<>> /\ visited' = {} /\ dpc' = "run"
  /\ result' = NoResult /\ prevResult' = NotRun
  /\ UNCHANGED <<mds, edgeRun, overlapRun>>
  /\ UNCHANGED gvars

\* Steps 5 to 7: run has returned; the clusters get their nodes and labels,
\* and the group nodes are created and added unless includeClusterLabels is
\* false or there is no cluster
BuildGroups ==
  /\ build.op = "cluster"
  /\ dpc = "done"
  /\ LET clusters == clustersWithNodes(result, build.fileNodes,
                                       build.callOptions.clusterLabels)
         groupNodes == createGroupNodes(clusters, build.options, nodeIdCounter)
     IN /\ build' = [build EXCEPT !.op = "groups"] @@ [clusters |-> clusters]
        /\ IF build.callOptions.includeClusterLabels /\ Len(clusters) > 0
           THEN /\ graph' = addNodes(graph, groupNodes)
                /\ nodeIdCounter' = nodeIdCounter + Len(clusters)
           ELSE UNCHANGED <<graph, nodeIdCounter>>
  /\ UNCHANGED <<edgeIdCounter, call, mds, edgeRun, overlapRun>>
  /\ UNCHANGED dvars

\* Step 8: graph.addNodes(fileNodes)
BuildAddFileNodes ==
  /\ build.op = "groups"
  /\ graph' = addNodes(graph, build.fileNodes)
  /\ build' = [build EXCEPT !.op = "files"]
  /\ UNCHANGED <<nodeIdCounter, edgeIdCounter, call, mds, edgeRun, overlapRun>>
  /\ UNCHANGED dvars

\* Step 9 and the return: the edges are created and added unless showEdges is
\* false; addEdges throws when an edge names a node the graph does not hold
BuildAddEdges ==
  /\ build.op = "files"
  /\ LET threshold == IF build.callOptions.edgeThreshold = Null
                      THEN build.options.edgeThreshold
                      ELSE build.callOptions.edgeThreshold
         r == createEdges(build.notes,
                          noteIdToNodeOf(build.notes, build.fileNodes),
                          threshold, edgeIdCounter)
         added == addEdges(graph, r.edges)
     IN IF ~build.callOptions.showEdges
        THEN /\ build' = [build EXCEPT !.op = "returned"] @@ [returned |-> graph]
             /\ UNCHANGED <<graph, edgeIdCounter>>
        ELSE /\ edgeIdCounter' = r.counter
             /\ graph' = added.g
             /\ build' = IF added.threw THEN [build EXCEPT !.op = "threw"]
                         ELSE [build EXCEPT !.op = "returned"]
                                @@ [returned |-> added.g]
  /\ UNCHANGED <<nodeIdCounter, call, mds, edgeRun, overlapRun>>
  /\ UNCHANGED dvars

NextBuild ==
  \/ BuildStart
  \/ OverlapPass /\ UNCHANGED <<gvars, dvars>>
  \/ OverlapReturn /\ UNCHANGED <<gvars, dvars>>
  \/ BuildCluster
  \/ Begin /\ UNCHANGED <<gvars, bvars>>
  \/ LoopSkip /\ UNCHANGED <<gvars, bvars>>
  \/ LoopNoise /\ UNCHANGED <<gvars, bvars>>
  \/ LoopStartCluster /\ UNCHANGED <<gvars, bvars>>
  \/ ExpandStep /\ UNCHANGED <<gvars, bvars>>
  \/ ExpandReturn /\ UNCHANGED <<gvars, bvars>>
  \/ Return /\ UNCHANGED <<gvars, bvars>>
  \/ BuildGroups
  \/ BuildAddFileNodes
  \/ BuildAddEdges

SpecBuild == InitBuild /\ [][NextBuild]_vars

\* some two vectors of the notes differ in length
LengthsDiffer(notes) ==
  \E a, b \in 1..Len(notes) : Len(notes[a].vector) # Len(notes[b].vector)

\* C14: when two of the input vectors differ in length, MDSAlgorithm.run
\* throws and yields no coordinate, and the buildCanvas that called it ends
\* with that error: it takes no further step and returns no graph.
C14_LengthMismatchAborts ==
  (build.op # "none" /\ build.op # "new" /\ LengthsDiffer(build.notes)) =>
    /\ mds.op = "run"
    /\ mds.output.threw
    /\ mds.output.coordinates = <<>>
    /\ build.op = "threw"
    /\ "returned" \notin DOMAIN build
    /\ overlapRun = NotCalled /\ dpc = "idle"

C14_Witness ==
  /\ build.op = "threw"
  /\ LengthsDiffer(build.notes)
  /\ mds.op = "run" /\ mds.output.threw
  /\ "returned" \notin DOMAIN build

\* C15: buildCanvas on no note returns a graph with no node and no edge and
\* throws nothing, whatever the options of the builder and of the call are.
C15_NoNotesEmptyGraph ==
  (build.op # "none" /\ build.op # "new" /\ Len(build.notes) = 0) =>
    /\ build.op = "returned"
    /\ build.returned.nodes = <<>>
    /\ build.returned.edges = <<>>

C15_Witness ==
  /\ build.op = "returned"
  /\ Len(build.notes) = 0
  /\ build.options.groupPadding = 0
  /\ ~build.callOptions.showEdges
  /\ build.returned.nodes = <<>>

\* the file nodes of a graph, in the order of the graph
FileNodesOf(g) == SelectSeq(g.nodes, LAMBDA n : n.type = "file")

\* C16: buildCanvas on N notes whose vectors have one length throws nothing,
\* and the graph it returns holds exactly N file nodes: the k-th of them has
\* the path of the k-th note, their ids are pairwise distinct, and each is
\* nodeWidth wide and nodeHeight high.
C16_OneFileNodePerNote ==
  (build.op # "none" /\ ~LengthsDiffer(build.notes)) =>
    /\ build.op # "threw"
    /\ build.op = "returned" =>
         LET files == FileNodesOf(build.returned)
         IN /\ Len(files) = Len(build.notes)
            /\ \A k \in 1..Len(files) :
                 /\ files[k].filePath = build.notes[k].path
                 /\ files[k].width = build.options.nodeWidth
                 /\ files[k].height = build.options.nodeHeight
            /\ \A k, m \in 1..Len(files) : files[k].id = files[m].id => k = m

C16_Witness ==
  /\ build.op = "returned"
  /\ ~LengthsDiffer(build.notes)
  /\ Len(build.notes) = 2
  /\ Len(FileNodesOf(build.returned)) = 2
  /\ \E k \in 1..Len(build.returned.nodes) : build.returned.nodes[k].type = "group"
  /\ Len(build.returned.edges) = 1

\* the ids of the nodes a graph holds
NodeIdsOf(g) == {g.nodes[k].id : k \in 1..Len(g.nodes)}

\* C21: buildCanvas inserts the group nodes first, then the file nodes, then
\* the edges: in the graph no file node stands before a group node, an edge is
\* in the graph only when all the file nodes are, both ends of every edge are
\* nodes of the graph, a step that inserts edges starts from a graph that
\* holds every file node, and no insertion of the pipeline throws.
C21_InsertionOrder ==
  /\ [](build.op \in {"groups", "files", "returned"} =>
          /\ \A k, m \in 1..Len(graph.nodes) :
               (graph.nodes[k].type = "file" /\ graph.nodes[m].type = "group")
                 => m < k
          /\ graph.edges # <<>> =>
               \A k \in 1..Len(build.fileNodes) :
                 build.fileNodes[k].id \in NodeIdsOf(graph)
          /\ \A k \in 1..Len(graph.edges) :
               /\ graph.edges[k].fromNode \in NodeIdsOf(graph)
               /\ graph.edges[k].toNode \in NodeIdsOf(graph))
  /\ [](~LengthsDiffer(build.notes) => build.op # "threw")
  /\ [][/\ graph'.edges # graph.edges =>
             /\ build.op = "files"
             /\ graph'.nodes = graph.nodes
             /\ \A k \in 1..Len(build.fileNodes) :
                  build.fileNodes[k].id \in NodeIdsOf(graph)
        /\ (build.op = "groups" /\ build'.op = "files") =>
             /\ \A k \in 1..Len(graph.nodes) : graph.nodes[k].type = "group"
             /\ graph.edges = <<>>]_vars

C21_Witness ==
  /\ build.op = "returned"
  /\ Len(build.notes) = 2
  /\ Len(graph.nodes) = 3
  /\ graph.nodes[1].type = "group"
  /\ graph.nodes[2].type = "file" /\ graph.nodes[3].type = "file"
  /\ Len(graph.edges) = 1
  /\ build.returned = graph

\* ---------------------------------------------------- buildCanvas, twice
\* buildCanvas is called a second time in the same process, on the same
\* builder with the same notes and options; nodeIdCounter and edgeIdCounter
\* are module-level variables and keep their values
BuildAgain ==
  /\ build.op = "returned"
  /\ "first" \notin DOMAIN build
  /\ build' = [op |-> "new", notes |-> build.notes, options |-> build.options,
               callOptions |-> build.callOptions, first |-> build.returned]
  /\ UNCHANGED <<mds, edgeRun, overlapRun>>
  /\ UNCHANGED <<gvars, dvars>>

NextBuildTwice == NextBuild \/ BuildAgain

\* the calls are buildCanvas(notes), with the options of the call left out
InitBuildTwice ==
  /\ InitBuild
  /\ build.callOptions = [includeClusterLabels |-> TRUE, showEdges |-> TRUE,
                          edgeThreshold |-> Null, clusterLabels |-> <<>>]

SpecBuildTwice == InitBuildTwice /\ [][NextBuildTwice]_vars

\* the ids of the file nodes and of the edges of a graph, in its order
FileNodeIdsOf(g) == [k \in 1..Len(FileNodesOf(g)) |-> FileNodesOf(g)[k].id]
EdgeIdsOf(g) == [k \in 1..Len(g.edges) |-> g.edges[k].id]

\* C22: buildCanvas keeps no state between calls: the graph a call returns
\* has the same file node ids and the same edge ids whether or not a call was
\* made before it, and so have the file nodes the call makes for that graph.
C22_IdsIndependentOfCalls ==
  /\ ("first" \in DOMAIN build /\ "fileNodes" \in DOMAIN build) =>
       [k \in 1..Len(build.fileNodes) |-> build.fileNodes[k].id]
         = FileNodeIdsOf(build.first)
  /\ ("first" \in DOMAIN build /\ build.op = "returned") =>
       /\ FileNodeIdsOf(build.returned) = FileNodeIdsOf(build.first)
       /\ EdgeIdsOf(build.returned) = EdgeIdsOf(build.first)

\* the group nodes of a graph, in the order of the graph
GroupNodesOf(g) == SelectSeq(g.nodes, LAMBDA n : n.type = "group")

\* the build has passed Step 7 and has created group nodes there
GroupsBuilt ==
  /\ build.op \in {"groups", "files", "returned"}
  /\ build.callOptions.includeClusterLabels
  /\ Len(result.clusters) > 0

\* C23 as claimed: the k-th group node carries the label clusterLabels holds
\* for the id of the k-th cluster when it holds one, and else "Cluster N", N
\* being the id of the cluster plus one.
C23_LabelOrDefault ==
  GroupsBuilt =>
    /\ Len(GroupNodesOf(graph)) = Len(result.clusters)
    /\ \A k \in 1..Len(result.clusters) :
         LET id == result.clusters[k].clusterId
             supplied == build.callOptions.clusterLabels
         IN GroupNodesOf(graph)[k].label =
              IF id \in DOMAIN supplied THEN [text |-> supplied[id]]
              ELSE [cluster |-> id + 1]

\* C23 amended: the k-th group node carries the label clusterLabels holds for
\* the id of the k-th cluster when it holds one that is not the empty string,
\* and else "Cluster N", N being the id of the cluster plus one.
C23_NonEmptyLabelOrDefault ==
  GroupsBuilt =>
    /\ Len(GroupNodesOf(graph)) = Len(result.clusters)
    /\ \A k \in 1..Len(result.clusters) :
         LET id == result.clusters[k].clusterId
             supplied == build.callOptions.clusterLabels
         IN GroupNodesOf(graph)[k].label =
              IF id \in DOMAIN supplied /\ supplied[id] # ""
              THEN [text |-> supplied[id]]
              ELSE [cluster |-> id + 1]

C23_Witness ==
  /\ build.op = "returned"
  /\ GroupsBuilt
  /\ Len(GroupNodesOf(build.returned)) = 2
  /\ build.callOptions.clusterLabels = (0 :> "" @@ 1 :> "Topic")
  /\ GroupNodesOf(build.returned)[1].label = [cluster |-> 1]
  /\ GroupNodesOf(build.returned)[2].label = [text |-> "Topic"]

\* the point has at least minPts points, itself included, within eps
CorePoint(k) ==
  Cardinality({j \in 1..Len(points) : SquaredDistance(k, j) <= eps * eps}) >= minPts

\* C24: when run has returned, two core points that are within eps of each
\* other are members of one and the same cluster, and neither is noise.
C24_CorePointsTogether ==
  dpc = "done" =>
    \A a, b \in 1..Len(points) :
      (CorePoint(a) /\ CorePoint(b) /\ SquaredDistance(a, b) <= eps * eps) =>
        /\ Cardinality(ClustersOf(a)) = 1
        /\ ClustersOf(a) = ClustersOf(b)
        /\ a \notin Range(result.noise)

\* run has returned: three core points in a row, the first and the third
\* farther than eps apart, are in one cluster
C24_Witness ==
  /\ dpc = "done" /\ minPts = 2 /\ eps = 1
  /\ \E a, b, c \in 1..Len(points) :
       /\ CorePoint(a) /\ CorePoint(b) /\ CorePoint(c)
       /\ SquaredDistance(a, b) <= eps * eps
       /\ SquaredDistance(b, c) <= eps * eps
       /\ SquaredDistance(a, c) > eps * eps
       /\ ClustersOf(a) = ClustersOf(c)
       /\ Cardinality(ClustersOf(a)) = 1

\* -------------------------------------------------- DBSCAN, a chain of points
\* Points on a line, one apart: two points at 0, one at each of 1, 2 and 3, two
\* at 4. With eps = 1 and minPts = 4 the points at 1 and at 3 are core points,
\* the point at 2 is within eps of both and is no core point. ChainLengths are
\* the numbers of points of the chain a run is given, from the left.
ChainPlaces == <<0, 0, 1, 2, 3, 4, 4>>
ChainLengths == {5, 7}
ChainEps == 1
ChainMinPts == 4

InitDbscanChain ==
  /\ GraphIdle
  /\ BuilderIdle
  /\ \E n \in ChainLengths : \E p \in Permutations(1..n) :
       points = [k \in 1..n |-> [id |-> p[k], x |-> ChainPlaces[p[k]], y |-> 0]]
  /\ eps = ChainEps
  /\ minPts = ChainMinPts
  /\ labels = <<>> /\ runI = 0 /\ clusterId = 0
  /\ queue = <<>> /\ visited = {} /\ dpc = "run"
  /\ result = NoResult /\ prevResult = NotRun

NextDbscanChain ==
  \/ Begin /\ UNCHANGED <<gvars, bvars>>
  \/ LoopSkip /\ UNCHANGED <<gvars, bvars>>
  \/ LoopNoise /\ UNCHANGED <<gvars, bvars>>
  \/ LoopStartCluster /\ UNCHANGED <<gvars, bvars>>
  \/ ExpandStep /\ UNCHANGED <<gvars, bvars>>
  \/ ExpandReturn /\ UNCHANGED <<gvars, bvars>>
  \/ Return /\ UNCHANGED <<gvars, bvars>>

SpecDbscanChain == InitDbscanChain /\ [][NextDbscanChain]_vars

\* C25: when run has returned, every member of a cluster is a core point or
\* is within eps of a core point that is a member of the same cluster.
C25_MembersNearCore ==
  dpc = "done" =>
    \A j \in 1..Len(result.clusters) :
      \A k \in Range(result.clusters[j].points) :
        \/ CorePoint(k)
        \/ \E c \in Range(result.clusters[j].points) :
             CorePoint(c) /\ SquaredDistance(k, c) <= eps * eps

\* run has returned on the five points: the point at 2, no core point, is in
\* the cluster of the core point at 1, and the point at 3, which is within eps
\* of the point at 2 only, is noise
C25_Witness ==
  /\ dpc = "done"
  /\ Len(points) = 5
  /\ Len(result.clusters) = 1
  /\ \E b \in Range(result.clusters[1].points) :
       points[b].x = 2 /\ ~CorePoint(b)
  /\ \E c \in Range(result.noise) : points[c].x = 3

\* C26: in a run a label only moves forward. In every step each point that is
\* unlabelled stays so or becomes noise or a member of the cluster being
\* built, each noise point stays noise or becomes a member of the cluster
\* being built, and each point that has a cluster id keeps it, also when the
\* expansion of a later cluster takes it from its queue; the labels of the
\* result are those the points had at the end.
C26_LabelsMoveForward ==
  /\ [][Len(labels) = Len(points) =>
          /\ Len(labels') = Len(points)
          /\ \A k \in 1..Len(points) :
               \/ labels'[k] = labels[k]
               \/ labels[k] = Undefined /\ labels'[k] \in {Noise, clusterId}
               \/ labels[k] = Noise /\ labels'[k] = clusterId]_vars
  /\ [](dpc = "done" =>
          \A k \in 1..Len(points) :
            /\ labels[k] >= 0 => ClustersOf(k) = {labels[k] + 1}
            /\ labels[k] < 0 => ClustersOf(k) = {})

\* expandCluster of the second cluster has taken from its queue a point that
\* is a member of the first one, and the point is a member of the first still
C26_Witness ==
  /\ dpc = "expand"
  /\ clusterId = 1
  /\ \E k \in visited : labels[k] = 0 /\ points[k].x = 2
  /\ \E k \in 1..Len(points) : labels[k] = Noise

\* the square of the distance of the centres of two nodes, computed from
\* their corners; the widths and heights of the model are even
CentreDistanceSquared(a, b) ==
  LET dx == (b.position.x + b.width \div 2) - (a.position.x + a.width \div 2)
      dy == (b.position.y + b.height \div 2) - (a.position.y + a.height \div 2)
  IN dx * dx + dy * dy

\* C27: a pass of resolveOverlaps over two nodes whose boxes intersect moves
\* the first by some vector and the second by the opposite vector, and the
\* centres of the two are farther apart after the pass than before it. The
\* claim is stated here for the pairs whose centres differ, where no jitter
\* is drawn; it fails already for these.
C27_PushedApart ==
  [][(/\ overlapRun.op = "loop"
      /\ overlapRun'.passes = overlapRun.passes + 1
      /\ Len(overlapRun.nodes) = 2
      /\ overlapRun.nodes[1].position # NaNCoordinate
      /\ overlapRun.nodes[2].position # NaNCoordinate
      /\ BoxesIntersect(overlapRun.nodes[1], overlapRun.nodes[2])
      /\ CentreDistanceSquared(overlapRun.nodes[1], overlapRun.nodes[2]) > 0)
     => LET a == overlapRun.nodes[1]
            b == overlapRun.nodes[2]
            movedA == overlapRun'.nodes[1]
            movedB == overlapRun'.nodes[2]
        IN /\ movedA.position # NaNCoordinate
           /\ movedB.position # NaNCoordinate
           /\ movedA.position.x - a.position.x = b.position.x - movedB.position.x
           /\ movedA.position.y - a.position.y = b.position.y - movedB.position.y
           /\ CentreDistanceSquared(movedA, movedB) > CentreDistanceSquared(a, b)]_vars

\* C28: resolveOverlaps divides by no zero: no node that resolveOverlaps was
\* handed at a finite position is at NaN during the call or after it.
C28_NoNaNPosition ==
  overlapRun.op \in {"loop", "done"} =>
    \A k \in 1..Len(overlapRun.nodes) :
      overlapRun.input[k].position # NaNCoordinate
        => overlapRun.nodes[k].position # NaNCoordinate

\* the file nodes, by their index, of the k-th cluster of the DBSCAN result
MembersOf(k) == Range(result.clusters[k].points)

C30_ContainedAreMembers ==
  (build.op = "returned" /\ GroupsBuilt) =>
    \A k \in 1..Len(result.clusters) :
      {m \in 1..Len(build.fileNodes) :
         containsNode(GroupNodesOf(build.returned)[k], build.fileNodes[m])}
        = MembersOf(k)

====
